---- MODULE Spec2Model ----
(***************************************************************************)
(* Model of the fsticuffs grammar compiler and recognizer of               *)
(* rhasspy-junior: expression trees (jsgf.py) are lowered to a labelled    *)
(* directed graph (jsgf_graph.py), token lists are matched against the     *)
(* graph strictly or fuzzily (fsticuffs.py: paths_strict, paths_fuzzy) and *)
(* a matched node path is interpreted into a Recognition                   *)
(* (fsticuffs.py: path_to_recognition).                                    *)
(*                                                                         *)
(* Conventions.                                                            *)
(*  - A Python string that the code inspects by prefix (an output label)   *)
(*    is a record [op, arg, packed, t]: op is the "__op__" prefix ("word"  *)
(*    when there is none), arg the rest of the string, packed says the     *)
(*    string is stored as "__unpack__" + base64, t is the Python type of   *)
(*    the value ("str" for every label of a graph).                        *)
(*  - Costs are floats in the code; here they are integers counting tenths *)
(*    (0.1 is 1, 1.0 is 10).  The sums are exact here; the code's float    *)
(*    sums differ from the exact ones only from the third addition on      *)
(*    (0.1 + 0.1 + 1.0 against 1.0 + 0.1 + 0.1), which takes a path with   *)
(*    three skipped tokens, longer than the token lists explored here.     *)
(*  - Node ids are the integers the code uses (0-based).                   *)
(***************************************************************************)
EXTENDS Integers, Sequences, FiniteSets, TLC

\* ------------------------------------------------------------------------
\* Small helpers

Range(s) == {s[i] : i \in 1..Len(s)}

Reverse(s) == [i \in 1..Len(s) |-> s[Len(s) + 1 - i]]

RECURSIVE Flatten(_)
Flatten(ss) == IF ss = <<>> THEN <<>> ELSE Head(ss) \o Flatten(Tail(ss))

RECURSIVE SumSeq(_)
SumSeq(s) == IF s = <<>> THEN 0 ELSE Head(s) + SumSeq(Tail(s))

Max(a, b) == IF a >= b THEN a ELSE b

\* statement order: value is computed in full before rest is (TLC evaluates
\* operator arguments on demand)
Then(value, rest) == IF value = value THEN rest ELSE rest

\* ------------------------------------------------------------------------
\* Expression model (jsgf.py)

WILDCARD == "*"

NoTag ==
    [has |-> FALSE, tag_text |-> "", has_substitution |-> FALSE,
     substitution |-> <<>>, converters |-> <<>>]

Tag(tag_text) == [NoTag EXCEPT !.has = TRUE, !.tag_text = tag_text]

Word(text) ==
    [kind |-> "Word", text |-> text, has_substitution |-> FALSE,
     substitution |-> <<>>, converters |-> <<>>, tag |-> NoTag,
     items |-> <<>>, type |-> "group", rule_name |-> "", grammar_name |-> "",
     slot_name |-> <<>>]

Sequence(type, items) ==
    [Word("") EXCEPT !.kind = "Sequence", !.type = type, !.items = items]

RuleReference(grammar_name, rule_name) ==
    [Word("") EXCEPT !.kind = "RuleReference", !.rule_name = rule_name,
                     !.grammar_name = grammar_name]

\* slot_name is the comma separated name of the code, one element per part
SlotReference(slot_name) ==
    [Word("") EXCEPT !.kind = "SlotReference", !.slot_name = slot_name]

is_wildcard(word) == word.text = WILDCARD

\* isinstance(expression, Substitutable): Word, Sequence, SlotReference
Substitutable(expression) == expression.kind # "RuleReference"

\* isinstance(expression, Taggable) and expression.tag
Tagged(expression) == expression.tag.has

\* Shorthands the parser produces
Group(items) == Sequence("group", items)
Alternative(items) == Sequence("alternative", items)
Optional(item) == Sequence("alternative", <<item, Word("")>>)
WithTag(expression, tag) == [expression EXCEPT !.tag = tag]
WithSub(expression, substitution) ==
    [expression EXCEPT !.has_substitution = TRUE, !.substitution = substitution]
WithConv(expression, converters) == [expression EXCEPT !.converters = converters]

\* ------------------------------------------------------------------------
\* Labels

Label(op, arg) == [op |-> op, arg |-> arg, packed |-> FALSE, t |-> "str"]
Plain(text) == Label("word", text)
NoLabel == Plain("")

\* strings of the model's vocabulary that contain a space
SpacedStrings == {"living room", "Turn On", "my slot"}

\* " " in olabel
HasSpace(olabel) == olabel.arg \in SpacedStrings

maybe_pack(olabel) ==
    IF HasSpace(olabel) THEN [olabel EXCEPT !.packed = TRUE] ELSE olabel

\* base64.decodebytes(olabel[10:])
unpack(olabel) == [olabel EXCEPT !.packed = FALSE]

\* olabel[:9] == "__label__"
IsLabelOp(olabel, op) == (~olabel.packed) /\ olabel.op = op

\* olabel[:2] == "__"
StartsWithDunder(olabel) == olabel.packed \/ olabel.op # "word"

\* bool(olabel)
NonEmpty(olabel) == olabel.packed \/ olabel.op # "word" \/ olabel.arg # ""

\* ------------------------------------------------------------------------
\* networkx.DiGraph as the compiler uses it: nodes and edges in insertion
\* order, one edge per ordered pair of nodes

EmptyGraph == [nodes |-> <<>>, edges |-> <<>>, error |-> ""]

len(graph) == Len(graph.nodes)

NewNode(n) ==
    [id |-> n, start |-> FALSE, final |-> FALSE, has_word |-> FALSE, word |-> ""]

HasNode(graph, n) == \E i \in 1..Len(graph.nodes) : graph.nodes[i].id = n

NodeIndex(graph, n) == CHOOSE i \in 1..Len(graph.nodes) : graph.nodes[i].id = n

n_data(graph, n) == graph.nodes[NodeIndex(graph, n)]

touch_node(graph, n) ==
    IF HasNode(graph, n) THEN graph
    ELSE [graph EXCEPT !.nodes = Append(@, NewNode(n))]

\* graph.nodes[n][attr] = value for a node the graph has
set_word(graph, n, word) ==
    [graph EXCEPT !.nodes[NodeIndex(graph, n)].has_word = TRUE,
                  !.nodes[NodeIndex(graph, n)].word = word]

set_start(graph, n) == [graph EXCEPT !.nodes[NodeIndex(graph, n)].start = TRUE]

set_final(graph, n) == [graph EXCEPT !.nodes[NodeIndex(graph, n)].final = TRUE]

add_node_word(graph, n, word) == set_word(touch_node(graph, n), n, word)

add_node_start(graph, n) == set_start(touch_node(graph, n), n)

add_node_final(graph, n) == set_final(touch_node(graph, n), n)

NoWeight == <<0, 1>>

EdgeData(ilabel, olabel, label) ==
    [ilabel |-> ilabel, olabel |-> olabel, label |-> label,
     has_weight |-> FALSE, sentence_count |-> 0, weight |-> NoWeight]

\* the display label of an edge, f"{pre}{body}{post}", as its non-empty pieces
EdgeLabel(pre, body, post) ==
    SelectSeq(<<Label("word", pre), body, Label("word", post)>>,
              LAMBDA piece : piece.packed \/ piece.op # "word" \/ piece.arg # "")

HasEdge(graph, u, v) ==
    \E i \in 1..Len(graph.edges) : graph.edges[i].src = u /\ graph.edges[i].dst = v

EdgeIndex(graph, u, v) ==
    CHOOSE i \in 1..Len(graph.edges) : graph.edges[i].src = u /\ graph.edges[i].dst = v

edge_data(graph, u, v) == graph.edges[EdgeIndex(graph, u, v)]

MakeEdge(u, v, data, old) ==
    [src |-> u, dst |-> v, ilabel |-> data.ilabel, olabel |-> data.olabel,
     label |-> data.label,
     has_weight |-> data.has_weight \/ old.has_weight,
     sentence_count |-> IF data.has_weight THEN data.sentence_count
                        ELSE old.sentence_count,
     weight |-> IF data.has_weight THEN data.weight ELSE old.weight]

\* graph[u][v].update(data) for nodes the graph has
put_edge(graph, u, v, data) ==
    IF HasEdge(graph, u, v)
    THEN [graph EXCEPT !.edges[EdgeIndex(graph, u, v)] = MakeEdge(u, v, data, @)]
    ELSE [graph EXCEPT !.edges =
                          Append(@, MakeEdge(u, v, data, EdgeData("", NoLabel, <<>>)))]

add_edge(graph, u, v, data) == put_edge(touch_node(touch_node(graph, u), v), u, v, data)

\* graph[node].items(): the edges leaving node, in insertion order
successors(graph, node) == SelectSeq(graph.edges, LAMBDA e : e.src = node)

\* ------------------------------------------------------------------------
\* Replacement table (const.py ReplacementsType): a list of
\* [key, values]; the key of rule <g.r> is <<"<>", g, r>>, the key of slot
\* $name,arg,... is <<"$", name, arg, ...>>

HasKey(replacements, key) ==
    \E i \in 1..Len(replacements) : replacements[i].key = key

\* replacements.get(key), [] standing for None
get(replacements, key) ==
    IF HasKey(replacements, key)
    THEN replacements[CHOOSE i \in 1..Len(replacements) : replacements[i].key = key].values
    ELSE <<>>

\* replacements[key] = values
put(replacements, key, values) ==
    IF HasKey(replacements, key)
    THEN [i \in 1..Len(replacements) |->
            IF replacements[i].key = key
            THEN [key |-> key, values |-> values] ELSE replacements[i]]
    ELSE Append(replacements, [key |-> key, values |-> values])

\* split_slot_args(slot_name)[0]
split_slot_args_name(slot_name) == slot_name[1]

split_slot_args_args(slot_name) == Tail(slot_name)

\* ------------------------------------------------------------------------
\* Graph compiler (jsgf_graph.py)

GS(graph, state) == [graph |-> graph, state |-> state]

\* one epsilon edge from gs.state to a fresh state
marker_edge(gs, olabel, pre) ==
    GS(add_edge(gs.graph, gs.state, len(gs.graph),
                EdgeData("", maybe_pack(olabel), EdgeLabel(pre, olabel, ""))),
       len(gs.graph))

RECURSIVE add_substitution(_, _)
add_substitution(gs, substitution) ==
    Then(gs, IF substitution = <<>> THEN gs
             ELSE add_substitution(marker_edge(gs, Plain(Head(substitution)), ":"),
                                   Tail(substitution)))

\* one epsilon edge per marker (tag begin/end, converter begin/end)
RECURSIVE add_markers(_, _, _, _)
add_markers(gs, op, pre, names) ==
    Then(gs, IF names = <<>> THEN gs
             ELSE add_markers(marker_edge(gs, Label(op, Head(names)), pre), op, pre,
                              Tail(names)))

RECURSIVE expression_to_graph(_, _, _, _, _, _, _, _)

\* the edges that join the branches of an alternative (or the sentences of
\* the graph) in one state
RECURSIVE join_states(_, _, _)
join_states(graph, final_states, next_state) ==
    Then(graph, IF final_states = <<>> THEN graph
                ELSE join_states(add_edge(graph, Head(final_states), next_state,
                                          EdgeData("", NoLabel,
                                                   EdgeLabel("", NoLabel, ""))),
                                 Tail(final_states), next_state))

\* final_states.append(next_state)
append_final(acc, r) ==
    [graph |-> r.graph, final_states |-> Append(acc.final_states, r.state)]

\* ALTERNATIVE: branch the items from source_state; acc is the graph and
\* the list of final states
RECURSIVE alternative_to_graph(_, _, _, _, _, _, _, _)
alternative_to_graph(items, acc, source_state, replacements, empty_substitution, grammar_name, rule_grammar, expand_slots) ==
    Then(acc,
         IF items = <<>> THEN acc
         ELSE alternative_to_graph(
                  Tail(items),
                  append_final(acc,
                      expression_to_graph(Head(items), acc.graph, source_state,
                                          replacements, empty_substitution,
                                          grammar_name, rule_grammar, expand_slots)),
                  source_state, replacements, empty_substitution, grammar_name,
                  rule_grammar, expand_slots))

\* Connect all paths to final state
join_alternative(acc) ==
    Then(acc, GS(join_states(acc.graph, acc.final_states, len(acc.graph)),
                 len(acc.graph)))

\* GROUP: chain the items state to state
RECURSIVE group_to_graph(_, _, _, _, _, _, _)
group_to_graph(items, gs, replacements, empty_substitution, grammar_name, rule_grammar, expand_slots) ==
    Then(gs,
         IF items = <<>> THEN gs
         ELSE group_to_graph(
                  Tail(items),
                  expression_to_graph(Head(items), gs.graph, gs.state, replacements,
                                      empty_substitution, grammar_name, rule_grammar,
                                      expand_slots),
                  replacements, empty_substitution, grammar_name, rule_grammar,
                  expand_slots))

\* the self loop of a wildcard word
wildcard_edge(word, graph, source_state) ==
    IF is_wildcard(word)
    THEN add_edge(graph, source_state, source_state,
                  EdgeData(word.text, Plain(word.text),
                           EdgeLabel("", Plain(word.text), ":")))
    ELSE graph

word_edge_data(word, empty_substitution) ==
    IF (~word.has_substitution) /\ empty_substitution <= 0
    THEN \* Single word input/output
         EdgeData(word.text, Plain(word.text), EdgeLabel("", Plain(word.text), ""))
    ELSE \* Loading edge
         EdgeData(word.text, NoLabel, EdgeLabel("", Plain(word.text), ":"))

\* Add word output(s)
word_output(word, gs, empty_substitution) ==
    IF (~word.has_substitution) /\ empty_substitution <= 0 THEN gs
    ELSE IF empty_substitution <= 0
    THEN add_substitution(gs, IF ~word.has_substitution THEN <<word.text>>
                              ELSE word.substitution)
    ELSE gs

\* WORD: a state for the word, reached by an edge that reads it
word_to_graph(word, graph, source_state, next_state, empty_substitution) ==
    word_output(
        word,
        GS(add_edge(wildcard_edge(word, add_node_word(graph, next_state, word.text),
                                  source_state),
                    source_state, next_state, word_edge_data(word, empty_substitution)),
           next_state),
        empty_substitution)

rule_key(rule_ref, grammar_name, rule_grammar) ==
    IF rule_ref.grammar_name # ""
    THEN <<"<>", rule_ref.grammar_name, rule_ref.rule_name>>
    ELSE IF rule_grammar # ""
    THEN <<"<>", rule_grammar, rule_ref.rule_name>>
    ELSE IF grammar_name # ""
    THEN <<"<>", grammar_name, rule_ref.rule_name>>
    ELSE <<"<>", "", rule_ref.rule_name>>

next_rule_grammar(rule_ref, grammar_name, rule_grammar) ==
    IF rule_ref.grammar_name # "" THEN rule_ref.grammar_name
    ELSE IF rule_grammar # "" THEN rule_grammar
    ELSE grammar_name

\* RULE REFERENCE: the body of the rule in place of the reference
rule_to_graph(rule_ref, rule_replacements, gs, replacements, empty_substitution, grammar_name, rule_grammar, expand_slots) ==
    IF rule_replacements = <<>>
    THEN GS([gs.graph EXCEPT !.error = "Missing rule"], gs.state)
    ELSE expression_to_graph(Head(rule_replacements), gs.graph, gs.state, replacements,
                             empty_substitution, grammar_name,
                             next_rule_grammar(rule_ref, grammar_name, rule_grammar),
                             expand_slots)

\* Interpret as alternative
slot_values_to_graph(slot_ref, slot_values, gs, replacements, empty_substitution, grammar_name, rule_grammar, expand_slots) ==
    IF ~expand_slots THEN gs
    ELSE IF slot_values = <<>>
    THEN GS([gs.graph EXCEPT !.error = "Missing slot"], gs.state)
    ELSE expression_to_graph(
             Alternative(slot_values), gs.graph, gs.state, replacements,
             empty_substitution + (IF slot_ref.has_substitution
                                      /\ slot_ref.substitution # <<>>
                                      /\ slot_ref.substitution # <<"">>
                                   THEN 1 ELSE 0),
             grammar_name, rule_grammar, expand_slots)

\* Emit __source__ with slot name (no arguments)
source_edge(gs, olabel) ==
    Then(gs, GS(add_edge(gs.graph, gs.state, len(gs.graph),
                         EdgeData("", olabel, EdgeLabel("", maybe_pack(olabel), ""))),
                len(gs.graph)))

\* SLOT REFERENCE: the slot values as an alternative, then the source marker
slot_to_graph(slot_ref, gs, replacements, empty_substitution, grammar_name, rule_grammar, expand_slots) ==
    source_edge(
        slot_values_to_graph(slot_ref, get(replacements, <<"$">> \o slot_ref.slot_name),
                             gs, replacements, empty_substitution, grammar_name,
                             rule_grammar, expand_slots),
        Label("source", split_slot_args_name(slot_ref.slot_name)))

\* empty_substitution after "Handle sequence substitution" and "Handle tag
\* begin"
downstream_empty(expression, empty_substitution) ==
    empty_substitution
    + (IF Substitutable(expression) /\ expression.has_substitution THEN 1 ELSE 0)
    + (IF Tagged(expression) /\ expression.tag.has_substitution THEN 1 ELSE 0)

begin_converters(expression) ==
    (IF Tagged(expression) THEN Reverse(expression.tag.converters) ELSE <<>>)
    \o (IF Substitutable(expression) THEN Reverse(expression.converters) ELSE <<>>)

\* end_converters with the converters of the tag before those of the
\* expression, the order of the begin markers (a variant, to show what the
\* order carries)
end_converters_tag_first(expression) ==
    (IF Tagged(expression) THEN expression.tag.converters ELSE <<>>)
    \o (IF Substitutable(expression) THEN expression.converters ELSE <<>>)

end_converters(expression) ==
    (IF Substitutable(expression) THEN expression.converters ELSE <<>>)
    \o (IF Tagged(expression) THEN expression.tag.converters ELSE <<>>)

tag_names(expression) ==
    IF Tagged(expression) THEN <<expression.tag.tag_text>> ELSE <<>>

\* Handle tag begin, handle converters begin
begin_expression(expression, gs) ==
    add_markers(add_markers(gs, "begin", ":", tag_names(expression)),
                "convert", "!", begin_converters(expression))

\* the expression itself, by its class
body_to_graph(expression, gs, replacements, empty_substitution, grammar_name, rule_grammar, expand_slots) ==
  Then(gs,
    CASE expression.kind = "Sequence" /\ expression.type = "alternative" ->
            join_alternative(
                alternative_to_graph(expression.items,
                                     [graph |-> gs.graph, final_states |-> <<>>],
                                     gs.state, replacements, empty_substitution,
                                     grammar_name, rule_grammar, expand_slots))
      [] expression.kind = "Sequence" /\ expression.type = "group" ->
            group_to_graph(expression.items, gs, replacements, empty_substitution,
                           grammar_name, rule_grammar, expand_slots)
      [] expression.kind = "Word" ->
            word_to_graph(expression, gs.graph, gs.state, len(gs.graph),
                          empty_substitution)
      [] expression.kind = "RuleReference" ->
            rule_to_graph(expression,
                          get(replacements,
                              rule_key(expression, grammar_name, rule_grammar)),
                          gs, replacements, empty_substitution, grammar_name,
                          rule_grammar, expand_slots)
      [] expression.kind = "SlotReference" ->
            slot_to_graph(expression, gs, replacements, empty_substitution,
                          grammar_name, rule_grammar, expand_slots))

\* Handle sequence substitution (after the expression)
sequence_substitution(expression, gs, empty_substitution) ==
    IF Substitutable(expression) /\ expression.has_substitution
       /\ empty_substitution - 1 <= 0
    THEN add_substitution(gs, expression.substitution)
    ELSE gs

\* Handle tag substitution
tag_substitution(expression, gs) ==
    IF Tagged(expression) /\ expression.tag.has_substitution
    THEN add_substitution(gs, expression.tag.substitution)
    ELSE gs

\* Handle sequence substitution, converters end, tag end
end_expression(expression, gs, empty_substitution) ==
    Then(gs,
         add_markers(
             add_markers(
                 tag_substitution(expression,
                                  sequence_substitution(expression, gs,
                                                        empty_substitution)),
                 "converted", "!", end_converters(expression)),
             "end", ":", tag_names(expression)))

expression_to_graph(expression, graph, source_state, replacements, empty_substitution, grammar_name, rule_grammar, expand_slots) ==
    end_expression(
        expression,
        body_to_graph(expression, begin_expression(expression, GS(graph, source_state)),
                      replacements, downstream_empty(expression, empty_substitution),
                      grammar_name, rule_grammar, expand_slots),
        downstream_empty(expression, empty_substitution))

\* ------------------------------------------------------------------------
\* Sentence counts (ini_jsgf.py) and intent weights

\* a rule declared in an intent section: Rule(rule_name, rule_body)
Rule(rule_name, rule_body) ==
    [Word("") EXCEPT !.kind = "Rule", !.rule_name = rule_name, !.items = <<rule_body>>]

rule_body(rule) == rule.items[1]

\* RuleReference.full_rule_name, as a replacement key
full_rule_key(expression) == <<"<>", expression.grammar_name, expression.rule_name>>

RECURSIVE get_expression_count(_, _, _)
RECURSIVE count_product(_, _, _)
RECURSIVE count_sum(_, _, _)

count_product(items, replacements, exclude_slots) ==
    IF items = <<>> THEN 1
    ELSE get_expression_count(Head(items), replacements, exclude_slots)
         * count_product(Tail(items), replacements, exclude_slots)

count_sum(items, replacements, exclude_slots) ==
    IF items = <<>> THEN 0
    ELSE get_expression_count(Head(items), replacements, exclude_slots)
         + count_sum(Tail(items), replacements, exclude_slots)

get_expression_count(expression, replacements, exclude_slots) ==
    CASE expression.kind = "Sequence" /\ expression.type = "group" ->
            count_product(expression.items, replacements, exclude_slots)
      [] expression.kind = "Sequence" /\ expression.type = "alternative" ->
            count_sum(expression.items, replacements, exclude_slots)
      [] expression.kind = "RuleReference" ->
            count_sum(get(replacements, full_rule_key(expression)), replacements,
                      exclude_slots)
      [] expression.kind = "SlotReference" /\ ~exclude_slots ->
            count_sum(get(replacements, <<"$">> \o expression.slot_name), replacements,
                      exclude_slots)
      [] expression.kind = "Word" -> 1
      [] OTHER -> 0

\* intent name -> count, in the order of the sentences dict
get_intent_counts(sentences, replacements, exclude_slots) ==
    [i \in 1..Len(sentences) |->
        Max(1, count_sum(sentences[i].sentences, replacements, exclude_slots))]

RECURSIVE gcd(_, _)
gcd(a, b) == IF b = 0 THEN a ELSE gcd(b, a % b)

RECURSIVE lcm(_)
lcm(nums) ==
    IF nums = <<>> THEN 1
    ELSE IF Len(nums) = 1 THEN nums[1]
    ELSE lcm(<<(nums[1] * nums[2]) \div gcd(nums[1], nums[2])>> \o Tail(Tail(nums)))

\* Insert all sentences for this intent; acc is the graph and the list of
\* final states
RECURSIVE insert_sentences(_, _, _, _, _, _)
insert_sentences(acc, intent_state, intent_sentences, intent_name, replacements, expand_slots) ==
    Then(acc,
         IF intent_sentences = <<>> THEN acc
         ELSE insert_sentences(
                  append_final(acc,
                      expression_to_graph(Head(intent_sentences), acc.graph,
                                          intent_state, replacements, 0, intent_name,
                                          "", expand_slots)),
                  intent_state, Tail(intent_sentences), intent_name, replacements,
                  expand_slots))

\* intent_edge with the intent name as a plain output word instead of
\* "__label__" + name (a variant, to show what the prefix carries)
intent_edge_plain(olabel, weighted, sentence_count, weight) ==
    [EdgeData("", Plain(olabel.arg), EdgeLabel(":", Plain(olabel.arg), "")) EXCEPT
        !.has_weight = weighted,
        !.sentence_count = IF weighted THEN sentence_count ELSE 0,
        !.weight = IF weighted THEN weight ELSE NoWeight]

\* the __label__ edge of an intent
intent_edge(olabel, weighted, sentence_count, weight) ==
    [EdgeData("", olabel, EdgeLabel(":", olabel, "")) EXCEPT
        !.has_weight = weighted,
        !.sentence_count = IF weighted THEN sentence_count ELSE 0,
        !.weight = IF weighted THEN weight ELSE NoWeight]

\* Branch off for each intent from start state
RECURSIVE branch_intents(_, _, _, _, _, _, _, _)
branch_intents(acc, i, sentences, replacements, weighted, intent_counts, intent_weights, expand_slots) ==
    Then(acc,
         IF i > Len(sentences) THEN acc
         ELSE branch_intents(
                  insert_sentences(
                      [graph |-> add_edge(acc.graph, 0, len(acc.graph),
                                          intent_edge(Label("label",
                                                            sentences[i].intent_name),
                                                      weighted, intent_counts[i],
                                                      intent_weights[i])),
                       final_states |-> acc.final_states],
                      len(acc.graph), sentences[i].sentences, sentences[i].intent_name,
                      replacements, expand_slots),
                  i + 1, sentences, replacements, weighted, intent_counts,
                  intent_weights, expand_slots))

\* Fix zero counts
fixed_counts(counts) == [i \in 1..Len(counts) |-> Max(counts[i], 1)]

\* raw_weights with the count itself in place of lcm / count (a variant, to
\* show what the division carries)
raw_weights_proportional(intent_counts, num_sentences_lcm) ==
    [i \in 1..Len(intent_counts) |-> Max(intent_counts[i], 1)]

\* lcm / count for each intent
raw_weights(intent_counts, num_sentences_lcm) ==
    [i \in 1..Len(intent_counts) |-> num_sentences_lcm \div Max(intent_counts[i], 1)]

\* Normalize
normalize(weights, weight_sum) ==
    [i \in 1..Len(weights) |-> <<weights[i], weight_sum>>]

normalized_weights(weights) == normalize(weights, Max(SumSeq(weights), 1))

intent_weights_of(intent_counts) ==
    normalized_weights(raw_weights(intent_counts, lcm(intent_counts)))

\* Create final state and join all sentences to it
final_graph(acc) ==
    Then(acc, join_states(add_node_final(acc.graph, len(acc.graph)), acc.final_states,
                          len(acc.graph)))

weighted_graph(sentences, replacements, weighted, intent_counts, expand_slots) ==
    final_graph(
        branch_intents([graph |-> add_node_start(EmptyGraph, 0), final_states |-> <<>>],
                       1, sentences, replacements, weighted, intent_counts,
                       intent_weights_of(intent_counts), expand_slots))

sentences_to_graph(sentences, replacements, add_intent_weights, exclude_slots_from_counts, expand_slots) ==
    weighted_graph(sentences, replacements,
                   add_intent_weights /\ Len(sentences) > 1,
                   fixed_counts(get_intent_counts(sentences, replacements,
                                                  exclude_slots_from_counts)),
                   expand_slots)

\* split_rules of one intent: its rules go to the replacement table
RECURSIVE split_intent_rules(_, _, _)
split_intent_rules(exprs, intent_name, replacements) ==
    Then(replacements,
         IF exprs = <<>> THEN replacements
         ELSE split_intent_rules(
                  Tail(exprs), intent_name,
                  IF Head(exprs).kind = "Rule"
                  THEN put(replacements, <<"<>", intent_name, Head(exprs).rule_name>>,
                           <<rule_body(Head(exprs))>>)
                  ELSE replacements))

RECURSIVE split_all_rules(_, _, _)
split_all_rules(intents, i, replacements) ==
    Then(replacements,
         IF i > Len(intents) THEN replacements
         ELSE split_all_rules(intents, i + 1,
                              split_intent_rules(intents[i].sentences,
                                                 intents[i].intent_name, replacements)))

\* split_rules: rules go to the replacement table, sentences stay
split_rules(intents, replacements0) ==
    [sentences |->
        [i \in 1..Len(intents) |->
            [intent_name |-> intents[i].intent_name,
             sentences |-> SelectSeq(intents[i].sentences, LAMBDA e : e.kind # "Rule")]],
     replacements |-> split_all_rules(intents, 1, replacements0)]

\* ------------------------------------------------------------------------
\* Numbers (number_utils.py)

\* int(text) for the numerals of the model's vocabulary
Numerals ==
    [text \in {"0", "1", "2", "3", "5", "10", "20", "21", "22", "70", "71", "72", "73"} |->
        CASE text = "0" -> 0 [] text = "1" -> 1 [] text = "2" -> 2 [] text = "3" -> 3
          [] text = "5" -> 5 [] text = "10" -> 10 [] text = "20" -> 20
          [] text = "21" -> 21 [] text = "22" -> 22 [] text = "70" -> 70
          [] text = "71" -> 71 [] text = "72" -> 72 [] text = "73" -> 73]

\* NUMBER_PATTERN.match(text)
IsNumeral(text) == text \in DOMAIN Numerals

\* str(n)
str(n) == CHOOSE text \in DOMAIN Numerals : Numerals[text] = n

HasStr(n) == \E text \in DOMAIN Numerals : Numerals[text] = n

\* number_to_words: pronounce_number(n).split() of lingua_franca (English)
number_to_words(n) ==
    CASE n = 0 -> <<"zero">> [] n = 1 -> <<"one">> [] n = 2 -> <<"two">>
      [] n = 3 -> <<"three">> [] n = 5 -> <<"five">> [] n = 10 -> <<"ten">>
      [] n = 20 -> <<"twenty">> [] n = 21 -> <<"twenty", "one">>
      [] n = 22 -> <<"twenty", "two">> [] n = 70 -> <<"seventy">>
      [] n = 71 -> <<"seventy", "one">> [] n = 72 -> <<"seventy", "two">>
      [] n = 73 -> <<"seventy", "three">>

\* NUMBER_RANGE_PATTERN.match(text): the three groups of the pattern, the
\* third "" when no ",step" is written
NumberRanges ==
    [text \in {"70..73", "1..3", "0..10,5", "0..3,2"} |->
        CASE text = "70..73" -> <<"70", "73", "">>
          [] text = "1..3" -> <<"1", "3", "">>
          [] text = "0..10,5" -> <<"0", "10", "5">>
          [] text = "0..3,2" -> <<"0", "3", "2">>]

\* len(match.groups()): the pattern has three groups
NumberRangeGroups == 3

None == [some |-> FALSE, expression |-> Word("")]

Some(expression) == [some |-> TRUE, expression |-> expression]

number_range_transform(word) ==
    IF word.kind # "Word" THEN None
    ELSE IF word.text \notin DOMAIN NumberRanges THEN None
    ELSE LET match == NumberRanges[word.text]
             lower_bound == match[1]
             upper_bound == match[2]
             step == IF NumberRangeGroups > 3 THEN match[3] ELSE "1"
         IN  Some([SlotReference(<<"mycroft/number", lower_bound, upper_bound, step>>)
                     EXCEPT !.text = word.text, !.converters = <<"int">>])

number_transform(word) ==
    IF word.kind # "Word" THEN None
    ELSE IF ~IsNumeral(word.text) THEN None
    ELSE LET n == Numerals[word.text]
             number_words == number_to_words(n)
         IN  IF Len(number_words) = 1
             THEN \* Easy case, single word
                  Some([Alternative(<<[Word(number_words[1])
                                         EXCEPT !.has_substitution = TRUE,
                                                !.substitution = <<str(n)>>,
                                                !.converters = <<"int">>]>>)
                          EXCEPT !.has_substitution = TRUE,
                                 !.substitution = <<str(n)>>,
                                 !.converters = <<"int">>])
             ELSE \* Hard case, split into multiple Words
                  Some([Alternative(<<Group([i \in 1..Len(number_words) |->
                                               Word(number_words[i])])>>)
                          EXCEPT !.has_substitution = TRUE,
                                 !.substitution = <<str(n)>>,
                                 !.converters = <<"int">>])

visit_expression(visit, expression) ==
    IF visit = "number_range_transform" THEN number_range_transform(expression)
    ELSE number_transform(expression)

WR(expression, replacements) == [expression |-> expression, replacements |-> replacements]

RECURSIVE walk_expression(_, _, _)

\* expression.items[i] = walk_expression(expression.items[i], ...)
set_item(acc, i, r) ==
    WR([acc.expression EXCEPT ![i] = r.expression], r.replacements)

\* the loop over expression.items, from i on; acc is the items and the table
RECURSIVE walk_items(_, _, _)
walk_items(acc, i, visit) ==
    Then(acc,
         IF i > Len(acc.expression) THEN acc
         ELSE walk_items(set_item(acc, i,
                                  walk_expression(acc.expression[i], visit,
                                                  acc.replacements)),
                         i + 1, visit))

\* key_replacements[i] = walk_expression(key_replacements[i], ...)
set_key_item(key, i, r) ==
    put(r.replacements, key, [get(r.replacements, key) EXCEPT ![i] = r.expression])

\* the loop over replacements[key], from i on
RECURSIVE walk_key(_, _, _, _)
walk_key(key, i, visit, replacements) ==
    Then(replacements,
         IF i > Len(get(replacements, key)) THEN replacements
         ELSE walk_key(key, i + 1, visit,
                       set_key_item(key, i,
                                    walk_expression(get(replacements, key)[i], visit,
                                                    replacements))))

with_items(expression, r) ==
    WR([expression EXCEPT !.items = r.expression], r.replacements)

\* result = visit(expression); if result is not None: expression = result
visited(expression, result) ==
    IF result.some THEN result.expression ELSE expression

walk_children(expression, visit, replacements) ==
    CASE expression.kind \in {"Sequence", "Rule"} ->
            with_items(expression,
                       walk_items(WR(expression.items, replacements), 1, visit))
      [] expression.kind = "RuleReference" ->
            IF HasKey(replacements, full_rule_key(expression))
            THEN WR(expression,
                    walk_key(full_rule_key(expression), 1, visit, replacements))
            ELSE WR(expression, replacements)
      [] expression.kind = "SlotReference" ->
            IF HasKey(replacements, <<"$">> \o expression.slot_name)
            THEN WR(expression,
                    walk_key(<<"$">> \o expression.slot_name, 1, visit, replacements))
            ELSE WR(expression, replacements)
      [] OTHER -> WR(expression, replacements)

walk_expression(expression, visit, replacements) ==
    walk_children(visited(expression, visit_expression(visit, expression)), visit,
                  replacements)

set_sentence(acc, i, j, r) ==
    [intents |-> [acc.intents EXCEPT ![i].sentences[j] = r.expression],
     replacements |-> r.replacements]

\* walk_expression over every sentence and rule of every intent
RECURSIVE walk_sentences(_, _, _, _)
walk_sentences(acc, i, j, visit) ==
    Then(acc,
         IF i > Len(acc.intents) THEN acc
         ELSE IF j > Len(acc.intents[i].sentences)
         THEN walk_sentences(acc, i + 1, 1, visit)
         ELSE walk_sentences(
                  set_sentence(acc, i, j,
                               walk_expression(acc.intents[i].sentences[j], visit,
                                               acc.replacements)),
                  i, j + 1, visit))

walk_intents(intents, visit, replacements) ==
    walk_sentences([intents |-> intents, replacements |-> replacements], 1, 1, visit)

\* ------------------------------------------------------------------------
\* Slots (slots.py)

RECURSIVE get_slot_names(_)
get_slot_names(item) ==
    CASE item.kind = "SlotReference" -> <<item.slot_name>>
      [] item.kind \in {"Sequence", "Rule"} ->
            Flatten([i \in 1..Len(item.items) |-> get_slot_names(item.items[i])])
      [] OTHER -> <<>>

\* Sentence.parse(line) of a line that is one word
parse_line(line) == Group(<<Word(line)>>)

\* the "$mycroft/number" generator of intents_to_graph: range(lower, upper, step)
RECURSIVE range(_, _, _)
range(lower, upper, step) ==
    IF lower >= upper THEN <<>> ELSE <<lower>> \o range(lower + step, upper, step)

strs(nums) == [k \in 1..Len(nums) |-> str(nums[k])]

number_range(args) ==
    strs(range(Numerals[args[1]], Numerals[args[2]], Numerals[args[3]]))

parse_lines(lines) == [k \in 1..Len(lines) |-> parse_line(lines[k])]

load_slot(slot_name, replacements) ==
    IF HasKey(replacements, <<"$">> \o slot_name) THEN replacements
    ELSE put(replacements, <<"$">> \o slot_name,
             parse_lines(number_range(split_slot_args_args(slot_name))))

RECURSIVE load_slots(_, _)
load_slots(slot_names, replacements) ==
    Then(replacements,
         IF slot_names = <<>> THEN replacements
         ELSE load_slots(Tail(slot_names), load_slot(Head(slot_names), replacements)))

add_slot_replacements(replacements0, sentences) ==
    load_slots(Flatten([i \in 1..Len(sentences) |->
                   Flatten([j \in 1..Len(sentences[i].sentences) |->
                       get_slot_names(sentences[i].sentences[j])])]),
               replacements0)

split_walked(walked) == split_rules(walked.intents, walked.replacements)

\* Load slot values, do single number transformations
transform_numbers(walked) ==
    walk_intents(walked.intents, "number_transform",
                 add_slot_replacements(walked.replacements, walked.intents))

\* the sentences and the replacement table intents_to_graph hands to
\* sentences_to_graph
resolve_intents(intents0, replacements0, replace_numbers) ==
    IF replace_numbers
    THEN split_walked(
             transform_numbers(
                 \* Replace number ranges with slot references
                 walk_intents(intents0, "number_range_transform", replacements0)))
    ELSE split_rules(intents0, replacements0)

resolved_to_graph(resolved, add_intent_weights, exclude_slots_from_counts) ==
    sentences_to_graph(resolved.sentences, resolved.replacements, add_intent_weights,
                       exclude_slots_from_counts, TRUE)

intents_to_graph(intents0, replacements0, add_intent_weights, exclude_slots_from_counts, replace_numbers) ==
    resolved_to_graph(resolve_intents(intents0, replacements0, replace_numbers),
                      add_intent_weights, exclude_slots_from_counts)

\* ------------------------------------------------------------------------
\* Strict search (fsticuffs.py paths_strict), one queue item at a time

\* next(n for n, data in n_data if data.get("start"))
get_start_node(graph) ==
    graph.nodes[CHOOSE i \in 1..Len(graph.nodes) :
                    /\ graph.nodes[i].start
                    /\ \A j \in 1..(i - 1) : ~graph.nodes[j].start].id

\* n_data[node].get("final", False)
is_final_node(graph, node) == n_data(graph, node).final

\* intent_filter(intent_name); no filter accepts every intent
NoFilter == [given |-> FALSE, accept |-> {}]

Filter(accept) == [given |-> TRUE, accept |-> accept]

\* a filter that is never consulted (a variant, to show what the pruning
\* carries)
filter_accepts_all(intent_filter, intent_name) == TRUE

filter_accepts(intent_filter, intent_name) ==
    (~intent_filter.given) \/ intent_name \in intent_filter.accept

PathNode(node, tokens) == [node |-> node, tokens |-> tokens]

StrictItem(node, path, tokens) == [node |-> node, path |-> path, tokens |-> tokens]

\* strict_edge without "if in_label != current_tokens[0]": any token passes
\* an edge that reads a word (a variant, to show what the comparison carries)
strict_edge_any_token(item, edge, exclude_tokens, intent_filter) ==
    IF IsLabelOp(edge.olabel, "label") /\ ~filter_accepts(intent_filter, edge.olabel.arg)
    THEN <<>>
    ELSE IF edge.ilabel # ""
    THEN IF item.tokens # <<>>
         THEN <<StrictItem(edge.dst,
                           Append(item.path, PathNode(item.node, <<Head(item.tokens)>>)),
                           Tail(item.tokens))>>
         ELSE <<>>
    ELSE <<StrictItem(edge.dst, Append(item.path, PathNode(item.node, <<>>)),
                      item.tokens)>>

\* the body of "for next_node, edge_data in graph[current_node].items()":
\* the queue items one edge adds (none or one)
strict_edge(item, edge, exclude_tokens, intent_filter) ==
    IF IsLabelOp(edge.olabel, "label") /\ ~filter_accepts(intent_filter, edge.olabel.arg)
    THEN <<>>  \* Skip intent
    ELSE IF edge.ilabel # ""
    THEN IF item.tokens # <<>>
         THEN IF edge.ilabel # Head(item.tokens)
              THEN IF exclude_tokens = {} \/ edge.ilabel \notin exclude_tokens
                   THEN <<>>  \* Can't exclude
                   ELSE <<StrictItem(edge.dst,
                                     Append(item.path, PathNode(item.node, <<>>)),
                                     item.tokens)>>
              ELSE \* Token match
                   <<StrictItem(edge.dst,
                                Append(item.path,
                                       PathNode(item.node, <<Head(item.tokens)>>)),
                                Tail(item.tokens))>>
         ELSE <<>>  \* Ran out of tokens
    ELSE <<StrictItem(edge.dst, Append(item.path, PathNode(item.node, <<>>)),
                      item.tokens)>>

\* one iteration of "while node_queue": the paths found so far and the queue
strict_step(graph, node_queue, paths, exclude_tokens, intent_filter) ==
    LET item == Head(node_queue)
        edges == successors(graph, item.node)
    IN  [paths |-> IF is_final_node(graph, item.node) /\ item.tokens = <<>>
                   THEN Append(paths, item.path) ELSE paths,
         node_queue |->
            Tail(node_queue)
            \o Flatten([i \in 1..Len(edges) |->
                            strict_edge(item, edges[i], exclude_tokens, intent_filter)])]

\* ------------------------------------------------------------------------
\* Fuzzy search (fsticuffs.py default_fuzzy_cost, paths_fuzzy)

\* costs in tenths: 0.1 for a stop word or a wildcard token, 1 for a mismatch
StopWordCost == 1

MismatchCost == 10

WildcardCost == 1

FuzzyCostOutput(cost, continue_search, matching_tokens, tokens) ==
    [cost |-> cost, continue_search |-> continue_search,
     matching_tokens |-> matching_tokens, tokens |-> tokens]

\* skip_tokens that charges a stop word as any other token (a variant, to
\* show what the marginal cost of stop words carries)
RECURSIVE skip_tokens_flat(_, _, _, _)
skip_tokens_flat(ilabel, tokens, stop_words, cost) ==
    IF tokens # <<>> /\ ilabel # Head(tokens)
    THEN skip_tokens_flat(ilabel, Tail(tokens), stop_words, cost + MismatchCost)
    ELSE [tokens |-> tokens, cost |-> cost]

\* "while tokens and (ilabel != tokens[0])": the tokens left and the cost
RECURSIVE skip_tokens(_, _, _, _)
skip_tokens(ilabel, tokens, stop_words, cost) ==
    IF tokens # <<>> /\ ilabel # Head(tokens)
    THEN skip_tokens(ilabel, Tail(tokens), stop_words,
                     cost + (IF Head(tokens) \in stop_words THEN StopWordCost
                             ELSE MismatchCost))
    ELSE [tokens |-> tokens, cost |-> cost]

\* default_fuzzy_cost that goes on when no token matches the input label (a
\* variant, to show what "continue_search=False" carries)
default_fuzzy_cost_lenient(ilabel, tokens, stop_words) ==
    IF ilabel # ""
    THEN IF tokens # <<>> /\ ilabel = WILDCARD
         THEN FuzzyCostOutput(WildcardCost, TRUE, <<Head(tokens)>>, Tail(tokens))
         ELSE LET s == skip_tokens(ilabel, tokens, stop_words, 0)
              IN  IF s.tokens # <<>> /\ ilabel = Head(s.tokens)
                  THEN FuzzyCostOutput(s.cost, TRUE, <<Head(s.tokens)>>, Tail(s.tokens))
                  ELSE FuzzyCostOutput(s.cost, TRUE, <<>>, s.tokens)
    ELSE FuzzyCostOutput(0, TRUE, <<>>, tokens)

\* the tokens field is cost_input.tokens after the call (the list is consumed
\* in place)
default_fuzzy_cost(ilabel, tokens, stop_words) ==
    IF ilabel # ""
    THEN IF tokens # <<>> /\ ilabel = WILDCARD
         THEN FuzzyCostOutput(WildcardCost, TRUE, <<Head(tokens)>>, Tail(tokens))
         ELSE LET s == skip_tokens(ilabel, tokens, stop_words, 0)
              IN  IF s.tokens # <<>> /\ ilabel = Head(s.tokens)
                  THEN \* Consume matching token
                       FuzzyCostOutput(s.cost, TRUE, <<Head(s.tokens)>>, Tail(s.tokens))
                  ELSE \* No matching token
                       FuzzyCostOutput(s.cost, FALSE, <<>>, s.tokens)
    ELSE FuzzyCostOutput(0, TRUE, <<>>, tokens)

FuzzyResult(intent_name, node_path, cost) ==
    [intent_name |-> intent_name, node_path |-> node_path, cost |-> cost]

FuzzyItem(node, in_tokens, out_path, out_count, cost, intent) ==
    [node |-> node, in_tokens |-> in_tokens, out_path |-> out_path,
     out_count |-> out_count, cost |-> cost, intent |-> intent]

\* the body of "for next_node, edge_data in graph[q_node].items()"
fuzzy_edge(item, edge, stop_words, intent_filter) ==
    LET out_label == edge.olabel
        is_label == NonEmpty(out_label) /\ IsLabelOp(out_label, "label")
        next_intent == IF is_label THEN out_label.arg ELSE item.intent
        next_out_count ==
            IF NonEmpty(out_label) /\ ~is_label /\ ~StartsWithDunder(out_label)
            THEN item.out_count + 1 ELSE item.out_count
        cost_output == default_fuzzy_cost(edge.ilabel, item.in_tokens, stop_words)
    IN  IF is_label /\ ~filter_accepts(intent_filter, next_intent)
        THEN <<>>  \* Skip intent
        ELSE IF ~cost_output.continue_search THEN <<>>
        ELSE <<FuzzyItem(edge.dst, cost_output.tokens,
                         Append(item.out_path,
                                PathNode(item.node, cost_output.matching_tokens)),
                         next_out_count, item.cost + cost_output.cost, next_intent)>>

\* intent_symbols_and_costs, a dict in insertion order: a list of
\* [intent_name, results]
dict_has(dict, key) == \E i \in 1..Len(dict) : dict[i].intent_name = key

dict_get(dict, key) ==
    IF dict_has(dict, key)
    THEN dict[CHOOSE i \in 1..Len(dict) : dict[i].intent_name = key].results
    ELSE <<>>

dict_set(dict, key, results) ==
    IF dict_has(dict, key)
    THEN [i \in 1..Len(dict) |->
            IF dict[i].intent_name = key
            THEN [intent_name |-> key, results |-> results] ELSE dict[i]]
    ELSE Append(dict, [intent_name |-> key, results |-> results])

\* float(len(n_data)), in tenths
initial_best_cost(graph) == 10 * len(graph)

\* is_final and (q_cost < q_out_count): don't bother reporting intents that
\* failed to consume any tokens
is_reported(graph, item) ==
    is_final_node(graph, item.node) /\ item.cost < 10 * item.out_count

\* one iteration of "while node_queue"
fuzzy_step(graph, node_queue, intent_symbols_and_costs, best_cost, stop_words, intent_filter) ==
    LET item == Head(node_queue)
        reported == is_reported(graph, item)
        best_intent_costs == dict_get(intent_symbols_and_costs, item.intent)
        \* remaining tokens count against
        final_cost == item.cost + 10 * Len(item.in_tokens)
        result == FuzzyResult(item.intent, item.out_path, final_cost)
        dict == IF ~reported THEN intent_symbols_and_costs
                ELSE IF best_intent_costs = <<>> \/ final_cost < best_intent_costs[1].cost
                THEN dict_set(intent_symbols_and_costs, item.intent, <<result>>)
                ELSE IF final_cost = best_intent_costs[1].cost
                THEN dict_set(intent_symbols_and_costs, item.intent,
                              Append(best_intent_costs, result))
                ELSE intent_symbols_and_costs
        best == IF reported /\ final_cost < best_cost THEN final_cost ELSE best_cost
        edges == successors(graph, item.node)
    IN  [intent_symbols_and_costs |-> dict,
         best_cost |-> best,
         node_queue |->
            IF item.cost > best
            THEN Tail(node_queue)  \* Can't get any better
            ELSE Tail(node_queue)
                 \o Flatten([i \in 1..Len(edges) |->
                                fuzzy_edge(item, edges[i], stop_words, intent_filter)])]

\* best_fuzzy_cost: the loop over intent_symbols_and_costs.values()
RECURSIVE best_fuzzy_loop(_, _, _, _)
best_fuzzy_loop(values, has_best, best_cost, best_results) ==
    IF values = <<>> THEN best_results
    ELSE LET fuzzy_results == Head(values)
         IN  IF fuzzy_results = <<>>
             THEN best_fuzzy_loop(Tail(values), has_best, best_cost, best_results)
             ELSE IF ~has_best
             THEN \* First result
                  best_fuzzy_loop(Tail(values), TRUE, fuzzy_results[1].cost,
                                  fuzzy_results)
             ELSE IF fuzzy_results[1].cost < best_cost
             THEN \* Overwrite (best_cost keeps its value)
                  best_fuzzy_loop(Tail(values), has_best, best_cost, fuzzy_results)
             ELSE IF fuzzy_results[1].cost = best_cost
             THEN \* Add to list
                  best_fuzzy_loop(Tail(values), has_best, best_cost,
                                  best_results \o fuzzy_results)
             ELSE best_fuzzy_loop(Tail(values), has_best, best_cost, best_results)

best_fuzzy_cost(intent_symbols_and_costs) ==
    best_fuzzy_loop([i \in 1..Len(intent_symbols_and_costs) |->
                        intent_symbols_and_costs[i].results],
                    FALSE, 0, <<>>)

\* ------------------------------------------------------------------------
\* Path interpreter (fsticuffs.py path_to_recognition)

\* " ".join(words)
RECURSIVE join(_)
join(words) ==
    IF words = <<>> THEN ""
    ELSE IF Len(words) = 1 THEN words[1]
    ELSE words[1] \o " " \o join(Tail(words))

\* str(conv_token)
str_token(token) == token.arg

\* sum(len(t) for t in original_tokens)
RECURSIVE sum_len(_)
sum_len(words) == IF words = <<>> THEN 0 ELSE Len(Head(words)) + sum_len(Tail(words))

Token(raw_token, sub_token, original_tokens) ==
    [raw_token |-> raw_token, sub_token |-> sub_token,
     original_tokens |-> original_tokens]

\* Step 1, one pair of the path: the edge's output label as the interpreter
\* reads it
path_olabel(graph, last, next) ==
    LET olabel == edge_data(graph, last.node, next.node).olabel
        \* Replace wildcard with actual tokens
        a == IF olabel = Plain(WILDCARD) THEN Plain(join(last.tokens)) ELSE olabel
    IN  \* Decode payload as base64-encoded bytestring
        IF a.packed THEN unpack(a) ELSE a

\* Step 1: go through path pairwise and gather input/output labels
gather_labels(node_path, graph) ==
    LET pairs == [i \in 1..(Len(node_path) - 1) |->
                    LET next_node == node_path[i + 1].node
                        word == IF n_data(graph, next_node).has_word
                                THEN n_data(graph, next_node).word ELSE ""
                        olabel == path_olabel(graph, node_path[i], node_path[i + 1])
                    IN  [word |-> word, olabel |-> olabel,
                         last_tokens |-> node_path[i].tokens]]
        labels == SelectSeq(pairs, LAMBDA p : IsLabelOp(p.olabel, "label"))
        kept == SelectSeq(pairs, LAMBDA p : ~IsLabelOp(p.olabel, "label")
                                            /\ (p.word # "" \/ NonEmpty(p.olabel)))
    IN  [intent_name |-> IF labels = <<>> THEN "" ELSE labels[Len(labels)].olabel.arg,
         raw_sub_tokens |->
            [i \in 1..Len(kept) |->
                Token(kept[i].word, kept[i].olabel, kept[i].last_tokens)]]

\* the numerals int() reads, and what str.upper and str.lower give for the
\* model's vocabulary
Upper ==
    [text \in {"light", "on", "turn", "living", "room", "cook"} |->
        CASE text = "light" -> "LIGHT" [] text = "on" -> "ON" [] text = "turn" -> "TURN"
          [] text = "living" -> "LIVING" [] text = "room" -> "ROOM"
          [] text = "cook" -> "COOK"]

upper(text) == IF text \in DOMAIN Upper THEN Upper[text] ELSE text

lower(text) ==
    IF \E t \in DOMAIN Upper : Upper[t] = text
    THEN CHOOSE t \in DOMAIN Upper : Upper[t] = text ELSE text

ConverterNames == {"int", "lower", "upper"}

\* converter_func(*sub_tokens) of get_default_converters, with the exception
\* it raises
converter_func(name, sub_tokens) ==
    IF name \notin ConverterNames THEN [error |-> "KeyError", values |-> <<>>]
    ELSE IF name = "int"
    THEN IF \E i \in 1..Len(sub_tokens) :
                sub_tokens[i].t # "int" /\ ~IsNumeral(sub_tokens[i].arg)
         THEN [error |-> "ValueError", values |-> <<>>]
         ELSE [error |-> "",
               values |-> [i \in 1..Len(sub_tokens) |-> [sub_tokens[i] EXCEPT !.t = "int"]]]
    ELSE IF \E i \in 1..Len(sub_tokens) : sub_tokens[i].t # "str"
    THEN [error |-> "TypeError", values |-> <<>>]
    ELSE [error |-> "",
          values |-> [i \in 1..Len(sub_tokens) |->
                        [sub_tokens[i] EXCEPT !.arg = IF name = "upper" THEN upper(@)
                                                      ELSE lower(@)]]]

\* itertools.zip_longest(raw_tokens, converted_tokens, orig_tokens, fillvalue="")
zip_longest(raw_tokens, converted_tokens, orig_tokens) ==
    [i \in 1..Max(Len(raw_tokens), Max(Len(converted_tokens), Len(orig_tokens))) |->
        Token(IF i <= Len(raw_tokens) THEN raw_tokens[i] ELSE "",
              IF i <= Len(converted_tokens) THEN converted_tokens[i] ELSE NoLabel,
              IF i <= Len(orig_tokens) THEN orig_tokens[i] ELSE <<>>)]

ConverterInfo(key) == [key |-> key, name |-> key, tokens |-> <<>>]

\* End converter: the tokens the popped converter hands on
converted_tokens(last_converter) ==
    LET ts == last_converter.tokens
        raw_tokens == [i \in 1..Len(SelectSeq(ts, LAMBDA t : t.raw_token # "")) |->
                          SelectSeq(ts, LAMBDA t : t.raw_token # "")[i].raw_token]
        sub_tokens == [i \in 1..Len(SelectSeq(ts, LAMBDA t : NonEmpty(t.sub_token))) |->
                          SelectSeq(ts, LAMBDA t : NonEmpty(t.sub_token))[i].sub_token]
        orig_tokens ==
            [i \in 1..Len(SelectSeq(ts, LAMBDA t : t.original_tokens # <<>>)) |->
                SelectSeq(ts, LAMBDA t : t.original_tokens # <<>>)[i].original_tokens]
        converted == converter_func(last_converter.name, sub_tokens)
    IN  [error |-> converted.error,
         tokens |-> zip_longest(raw_tokens, converted.values, orig_tokens)]

\* Step 2: apply converters
RECURSIVE apply_converters(_, _, _)
apply_converters(raw_sub_tokens, converter_stack, raw_conv_tokens) ==
    IF raw_sub_tokens = <<>>
    THEN IF converter_stack # <<>>
         THEN [error |-> "AssertionError", raw_conv_tokens |-> raw_conv_tokens]
         ELSE [error |-> "", raw_conv_tokens |-> raw_conv_tokens]
    ELSE LET token == Head(raw_sub_tokens)
             sub_token == token.sub_token
             top == Len(converter_stack)
         IN  IF NonEmpty(sub_token) /\ converter_stack # <<>>
                /\ ~StartsWithDunder(sub_token)
             THEN \* Add to existing converter
                  apply_converters(
                      Tail(raw_sub_tokens),
                      [converter_stack EXCEPT ![top].tokens = Append(@, token)],
                      raw_conv_tokens)
             ELSE IF sub_token.op = "convert"
             THEN \* Begin converter
                  apply_converters(Tail(raw_sub_tokens),
                                   Append(converter_stack, ConverterInfo(sub_token.arg)),
                                   raw_conv_tokens)
             ELSE IF sub_token.op = "converted"
             THEN \* End converter
                  IF converter_stack = <<>> \/ converter_stack[top].key # sub_token.arg
                  THEN [error |-> "AssertionError", raw_conv_tokens |-> raw_conv_tokens]
                  ELSE LET c == converted_tokens(converter_stack[top])
                           rest == SubSeq(converter_stack, 1, top - 1)
                       IN  IF c.error # ""
                           THEN [error |-> c.error, raw_conv_tokens |-> raw_conv_tokens]
                           ELSE IF rest # <<>>
                           THEN \* Add to parent converter
                                apply_converters(
                                    Tail(raw_sub_tokens),
                                    [rest EXCEPT ![top - 1].tokens = @ \o c.tokens],
                                    raw_conv_tokens)
                           ELSE \* Add directly to list
                                apply_converters(Tail(raw_sub_tokens), rest,
                                                 raw_conv_tokens \o c.tokens)
             ELSE apply_converters(Tail(raw_sub_tokens), converter_stack,
                                   Append(raw_conv_tokens, token))

\* intent.py Entity
Entity(entity, start, raw_start) ==
    [entity |-> entity, value |-> NoLabel, raw_value |-> "", source |-> "",
     start |-> start, raw_start |-> raw_start, end |-> 0, raw_end |-> 0,
     tokens |-> <<>>, raw_tokens |-> <<>>]

\* Handle raw (input) token
collect_raw(st, token) ==
    LET top == Len(st.entity_stack)
    IN  IF token.original_tokens # <<>>
        THEN \* Use tokens from recognition string
             [st EXCEPT
                !.raw_tokens = @ \o token.original_tokens,
                !.raw_index = @ + sum_len(token.original_tokens)
                                + Len(token.original_tokens),
                !.entity_stack =
                    IF top = 0 THEN @
                    ELSE [@ EXCEPT ![top].raw_tokens = @ \o token.original_tokens]]
        ELSE IF token.raw_token # ""
        THEN \* Use word itself
             [st EXCEPT
                !.raw_tokens = Append(@, token.raw_token),
                !.raw_index = @ + Len(token.raw_token) + 1,
                !.entity_stack =
                    IF top = 0 THEN @
                    ELSE [@ EXCEPT ![top].raw_tokens = Append(@, token.raw_token)]]
        ELSE st

\* End tag/entity: the entity with its end indexes and values
close_entity(last_entity, st) ==
    [last_entity EXCEPT
        !.end = st.sub_index - 1,
        !.raw_end = st.raw_index - 1,
        !.value = IF Len(last_entity.tokens) = 1
                  THEN \* Use Python object
                       last_entity.tokens[1]
                  ELSE \* Join as string
                       Plain(join([i \in 1..Len(last_entity.tokens) |->
                                      str_token(last_entity.tokens[i])])),
        !.raw_value = join(last_entity.raw_tokens)]

\* Handle converted (output) token
collect_conv(st, conv_token) ==
    LET top == Len(st.entity_stack)
    IN  IF ~NonEmpty(conv_token) THEN st
        ELSE IF conv_token.op = "begin"
        THEN \* Begin tag/entity
             [st EXCEPT !.entity_stack =
                            Append(@, Entity(conv_token.arg, st.sub_index, st.raw_index))]
        ELSE IF conv_token.op = "end"
        THEN \* End tag/entity
             IF top = 0 \/ st.entity_stack[top].entity # conv_token.arg
             THEN [st EXCEPT !.error = "AssertionError"]
             ELSE [st EXCEPT
                      !.entity_stack = SubSeq(@, 1, top - 1),
                      !.entities = Append(@, close_entity(st.entity_stack[top], st))]
        ELSE IF conv_token.op = "source"
        THEN IF top = 0 THEN st
             ELSE [st EXCEPT !.entity_stack[top].source = conv_token.arg]
        ELSE [st EXCEPT
                !.entity_stack =
                    IF top = 0 THEN @
                    ELSE \* Add to most recent named entity
                         [@ EXCEPT ![top].tokens = Append(@, conv_token)],
                !.tokens = Append(@, conv_token),
                !.sub_index = @ + Len(str_token(conv_token)) + 1]

\* Step 3: collect entities
RECURSIVE collect_entities(_, _)
collect_entities(raw_conv_tokens, st) ==
    Then(st,
         IF raw_conv_tokens = <<>> \/ st.error # "" THEN st
         ELSE collect_entities(Tail(raw_conv_tokens),
                               collect_conv(collect_raw(st, Head(raw_conv_tokens)),
                                            Head(raw_conv_tokens).sub_token)))

\* Intent.confidence as the fraction <<numerator, denominator>>
Confidence(numerator, denominator) == <<numerator, denominator>>

FullConfidence == Confidence(1, 1)

Recognition(intent_name, confidence, st) ==
    [intent |-> [name |-> intent_name, confidence |-> confidence],
     entities |-> st.entities,
     text |-> join([i \in 1..Len(st.tokens) |-> str_token(st.tokens[i])]),
     raw_text |-> join(st.raw_tokens),
     tokens |-> st.tokens,
     raw_tokens |-> st.raw_tokens]

NoCollected ==
    [tokens |-> <<>>, raw_tokens |-> <<>>, entities |-> <<>>, entity_stack |-> <<>>,
     raw_index |-> 0, sub_index |-> 0, error |-> ""]

NoRecognition == Recognition("", FullConfidence, NoCollected)

PathResult(result, error, recognition) ==
    [result |-> result, error |-> error, recognition |-> recognition]

\* Step 4: the Recognition, with the fuzzy confidence when there is a cost
entities_to_result(intent_name, st, cost) ==
    IF st.error # "" THEN PathResult("ERROR", st.error, NoRecognition)
    ELSE IF cost > 0
    THEN \* Set fuzzy confidence
         IF Len(st.raw_tokens) = 0
         THEN PathResult("ERROR", "ZeroDivisionError", NoRecognition)
         ELSE PathResult("SUCCESS", "",
                         Recognition(intent_name,
                                     Confidence(10 * Len(st.raw_tokens) - cost,
                                                10 * Len(st.raw_tokens)),
                                     st))
    ELSE PathResult("SUCCESS", "", Recognition(intent_name, FullConfidence, st))

\* Step 3 on the tokens Step 2 leaves
converted_to_result(intent_name, converted, cost) ==
    IF converted.error # ""
    THEN PathResult("ERROR", converted.error, NoRecognition)
    ELSE entities_to_result(intent_name,
                            collect_entities(converted.raw_conv_tokens, NoCollected),
                            cost)

\* Step 2 on the labels Step 1 leaves
gathered_to_result(gathered, cost) ==
    converted_to_result(gathered.intent_name,
                        apply_converters(gathered.raw_sub_tokens, <<>>, <<>>), cost)

\* path_to_recognition(node_path, graph, cost): cost in tenths, 0 for None;
\* result "ERROR" stands for the exception the call raises
path_to_recognition(node_path, graph, cost) ==
    IF node_path = <<>>
    THEN \* Empty path indicates failure
         PathResult("FAILURE", "", NoRecognition)
    ELSE gathered_to_result(gather_labels(node_path, graph), cost)

NoRecognitions == [error |-> "", recognitions |-> <<>>]

\* one turn of the loop of recognize over the paths
add_result(acc, r) ==
    IF r.result = "ERROR" THEN [error |-> r.error, recognitions |-> <<>>]
    ELSE IF r.result = "SUCCESS"
    THEN [error |-> "", recognitions |-> Append(acc.recognitions, r.recognition)]
    ELSE acc

\* the loop of recognize over the paths: the recognitions, or the exception
\* of the first path that raises
RECURSIVE gather_recognitions(_, _, _)
gather_recognitions(paths, graph, acc) ==
    Then(acc,
         IF paths = <<>> \/ acc.error # "" THEN acc
         ELSE gather_recognitions(
                  Tail(paths), graph,
                  add_result(acc, path_to_recognition(Head(paths).node_path, graph,
                                                      Head(paths).cost))))

\* ------------------------------------------------------------------------
\* JSON form of a graph (jsgf_graph.py graph_to_json, json_to_graph): the
\* node-link data of networkx, every attribute dict as the list of its
\* <<key, value>> items

node_attrs(node) ==
    (IF node.start THEN <<<<"start", TRUE>>>> ELSE <<>>)
    \o (IF node.has_word THEN <<<<"word", node.word>>>> ELSE <<>>)
    \o (IF node.final THEN <<<<"final", TRUE>>>> ELSE <<>>)

\* edge attributes without the intent weights (a variant, to show that the
\* round trip through JSON is more than the identity on the labels)
edge_attrs_unweighted(edge) ==
    <<<<"ilabel", edge.ilabel>>, <<"olabel", edge.olabel>>, <<"label", edge.label>>>>

edge_attrs(edge) ==
    <<<<"ilabel", edge.ilabel>>, <<"olabel", edge.olabel>>, <<"label", edge.label>>>>
    \o (IF edge.has_weight
        THEN <<<<"sentence_count", edge.sentence_count>>, <<"weight", edge.weight>>>>
        ELSE <<>>)

\* G.edges(data=True): node by node, each node's edges in insertion order
edges_by_node(graph) ==
    Flatten([n \in 1..Len(graph.nodes) |-> successors(graph, graph.nodes[n].id)])

json_links(edges) ==
    [i \in 1..Len(edges) |->
        edge_attrs(edges[i])
        \o <<<<"source", edges[i].src>>, <<"target", edges[i].dst>>>>]

\* node_link_data(graph)
graph_to_json(graph) ==
    [directed |-> TRUE, multigraph |-> FALSE,
     nodes |-> [i \in 1..Len(graph.nodes) |->
                  Append(node_attrs(graph.nodes[i]), <<"id", graph.nodes[i].id>>)],
     links |-> json_links(edges_by_node(graph))]

\* dict.get(key, default) on a list of items
attr_has(items, key) == \E i \in 1..Len(items) : items[i][1] = key

attr_get(items, key, default) ==
    IF attr_has(items, key)
    THEN items[CHOOSE i \in 1..Len(items) :
                   /\ items[i][1] = key
                   /\ \A j \in (i + 1)..Len(items) : items[j][1] # key][2]
    ELSE default

json_node(items) ==
    [id |-> attr_get(items, "id", 0),
     start |-> attr_get(items, "start", FALSE),
     final |-> attr_get(items, "final", FALSE),
     has_word |-> attr_has(items, "word"),
     word |-> attr_get(items, "word", "")]

json_edge(items) ==
    [src |-> attr_get(items, "source", 0), dst |-> attr_get(items, "target", 0),
     ilabel |-> attr_get(items, "ilabel", ""),
     olabel |-> attr_get(items, "olabel", NoLabel),
     label |-> attr_get(items, "label", <<>>),
     has_weight |-> attr_has(items, "weight"),
     sentence_count |-> attr_get(items, "sentence_count", 0),
     weight |-> attr_get(items, "weight", NoWeight)]

\* graph.add_edge(source, target, **data)
json_add_edge(graph, edge) == add_edge(graph, edge.src, edge.dst, edge)

RECURSIVE json_add_edges(_, _)
json_add_edges(graph, links) ==
    Then(graph,
         IF links = <<>> THEN graph
         ELSE json_add_edges(json_add_edge(graph, json_edge(Head(links))), Tail(links)))

\* node_link_graph(json_dict)
json_to_graph(json_dict) ==
    json_add_edges(
        [EmptyGraph EXCEPT
            !.nodes = [i \in 1..Len(json_dict.nodes) |-> json_node(json_dict.nodes[i])]],
        json_dict.links)

\* ------------------------------------------------------------------------
\* Grammars the recognizer is trained on (sentences.ini files as parse_ini
\* reads them)

\* [Greet] / hello [world]
CorpusGreet ==
    <<[intent_name |-> "Greet",
       sentences |-> <<Group(<<Word("hello"), Optional(Word("world"))>>)>>]>>

\* [SetTemp] / set temperature to (70..73){temperature}
CorpusSetTemp ==
    <<[intent_name |-> "SetTemp",
       sentences |-> <<Group(<<Word("set"), Word("temperature"), Word("to"),
                               WithTag(Group(<<Word("70..73")>>),
                                       Tag("temperature"))>>)>>]>>

\* [LightOn] / turn (on | off){state} [please]
\* [Power] / turn on / \[now] [please]
CorpusHome ==
    <<[intent_name |-> "LightOn",
       sentences |->
          <<Group(<<Word("turn"),
                    WithTag(Group(<<Alternative(<<Word("on"), Word("off")>>)>>),
                            Tag("state")),
                    Optional(Word("please"))>>)>>],
      [intent_name |-> "Power",
       sentences |->
          <<Group(<<Word("turn"), Word("on")>>),
            Group(<<Optional(Word("now")), Optional(Word("please"))>>)>>]>>

\* [A] / turn (on | off){state} the (living room | kitchen:cook){name!upper}
\*     / lights = (light | lamp:light) / switch <lights> [now]
\* [B] / (a | a) twenty:20!int / (turn on (light){name})!upper
CorpusLights ==
    <<[intent_name |-> "A",
       sentences |->
          <<Group(<<Word("turn"),
                    WithTag(Group(<<Alternative(<<Word("on"), Word("off")>>)>>),
                            Tag("state")),
                    Word("the"),
                    WithTag(Group(<<Alternative(<<Group(<<Word("living"),
                                                          Word("room")>>),
                                                  WithSub(Word("kitchen"),
                                                          <<"cook">>)>>)>>),
                            WithConv(Tag("name"), <<"upper">>))>>),
            Rule("lights",
                 Group(<<Group(<<Group(<<Alternative(
                     <<Word("light"), WithSub(Word("lamp"), <<"light">>)>>)>>)>>)>>)),
            Group(<<Word("switch"), RuleReference("A", "lights"),
                    Optional(Word("now"))>>)>>],
      [intent_name |-> "B",
       sentences |->
          <<Group(<<Group(<<Alternative(<<Word("a"), Word("a")>>)>>),
                    WithConv(WithSub(Word("twenty"), <<"20">>), <<"int">>)>>),
            Group(<<WithConv(Group(<<Word("turn"), Word("on"),
                                     WithTag(Group(<<Word("light")>>), Tag("name"))>>),
                             <<"upper">>)>>)>>]>>

\* [Turn On] / (a b){living room} / (c):(d e)
CorpusPacked ==
    <<[intent_name |-> "Turn On",
       sentences |->
          <<Group(<<WithTag(Group(<<Word("a"), Word("b")>>), Tag("living room"))>>),
            Group(<<WithSub(Group(<<Word("c")>>), <<"d", "e">>)>>)>>]>>

Corpora == <<CorpusGreet, CorpusSetTemp, CorpusHome, CorpusLights, CorpusPacked>>

\* ------------------------------------------------------------------------
\* The sentences a grammar generates: every derivation of a template, as
\* its token list (a list with one entry per derivation)

RECURSIVE expand(_, _, _)
RECURSIVE expand_group(_, _, _)
RECURSIVE expand_alternative(_, _, _)

\* every first followed by every rest
product(first, rest) ==
    [k \in 1..(Len(first) * Len(rest)) |->
        first[((k - 1) \div Len(rest)) + 1] \o rest[((k - 1) % Len(rest)) + 1]]

expand_group(items, replacements, grammar_name) ==
    IF items = <<>> THEN <<<<>>>>
    ELSE product(expand(Head(items), replacements, grammar_name),
                 expand_group(Tail(items), replacements, grammar_name))

expand_alternative(items, replacements, grammar_name) ==
    IF items = <<>> THEN <<>>
    ELSE expand(Head(items), replacements, grammar_name)
         \o expand_alternative(Tail(items), replacements, grammar_name)

expand(expression, replacements, grammar_name) ==
    CASE expression.kind = "Word" ->
            IF expression.text = "" THEN <<<<>>>> ELSE <<<<expression.text>>>>
      [] expression.kind = "Sequence" /\ expression.type = "group" ->
            expand_group(expression.items, replacements, grammar_name)
      [] expression.kind = "Sequence" /\ expression.type = "alternative" ->
            expand_alternative(expression.items, replacements, grammar_name)
      [] expression.kind = "RuleReference" ->
            expand(Head(get(replacements,
                            <<"<>", IF expression.grammar_name # ""
                                    THEN expression.grammar_name ELSE grammar_name,
                              expression.rule_name>>)),
                   replacements, grammar_name)
      [] expression.kind = "SlotReference" ->
            expand_alternative(get(replacements, <<"$">> \o expression.slot_name),
                               replacements, grammar_name)

\* the derivations of the templates of one intent of corpus c
expand_intent(resolved, i) ==
    Flatten([j \in 1..Len(resolved.sentences[i].sentences) |->
                expand(resolved.sentences[i].sentences[j], resolved.replacements,
                       resolved.sentences[i].intent_name)])

IntentSentences(c, i) == expand_intent(resolve_intents(Corpora[c], <<>>, TRUE), i)

IntentNames(c) == [i \in 1..Len(Corpora[c]) |-> Corpora[c][i].intent_name]

\* how many derivations of intent i of corpus c spell tokens
Derivations(c, i, tokens) ==
    Len(SelectSeq(IntentSentences(c, i), LAMBDA sentence : sentence = tokens))

\* a grammar with slots: some template refers to a slot
RECURSIVE has_slot(_)
has_slot(expression) ==
    \/ expression.kind = "SlotReference"
    \/ \E i \in 1..Len(expression.items) : has_slot(expression.items[i])

some_slot(resolved) ==
    \E i \in 1..Len(resolved.sentences) :
        \E j \in 1..Len(resolved.sentences[i].sentences) :
            has_slot(resolved.sentences[i].sentences[j])

HasSlots(c) == some_slot(resolve_intents(Corpora[c], <<>>, TRUE))

\* every word of the grammar of corpus c
words_of(sentences) == UNION {Range(sentences[k]) : k \in 1..Len(sentences)}

GrammarWords(c) == UNION {words_of(IntentSentences(c, i)) : i \in 1..Len(Corpora[c])}

\* ------------------------------------------------------------------------
\* Bounds and inputs

\* longest token list drawn from a vocabulary
MaxLen == 3

\* the words token lists are drawn from, per corpus: words of the grammar
\* and words foreign to it
Vocab ==
    <<{"hello", "world", "hi", "x"}, {}, {"turn", "on", "x"}, {}, {}>>

\* token lists tried beside the drawn ones and the grammar's own sentences
Extra ==
    <<{},
      {<<"set", "temperature", "to", "72">>, <<"set", "temperature", "to", "73">>},
      {<<"turn", "off", "x">>, <<"now", "x">>, <<"turn", "please">>},
      {<<"a", "20">>, <<"turn", "on", "the", "kitchen", "x">>},
      {<<"c", "x">>}>>

StopWordChoices ==
    <<{{}, {"hi"}}, {{}}, {{}, {"x"}, {"on"}}, {{}}, {{}}>>

FilterChoices ==
    <<{NoFilter}, {NoFilter}, {NoFilter, Filter({"LightOn"})},
      {NoFilter, Filter({"B"})}, {NoFilter}>>

BoundedSeqs(S, n) == UNION {[1..k -> S] : k \in 0..n}

Expansions(c) ==
    UNION {Range(IntentSentences(c, i)) : i \in 1..Len(Corpora[c])}

Inputs(c) == BoundedSeqs(Vocab[c], MaxLen) \cup Extra[c] \cup Expansions(c)

\* tokens with word inserted before position pos
InsertAt(tokens, pos, word) ==
    SubSeq(tokens, 1, pos - 1) \o <<word>> \o SubSeq(tokens, pos, Len(tokens))

\* ------------------------------------------------------------------------
\* The recognizer as a state machine: a grammar is compiled and the graph
\* written as JSON, the recognizer loads the graph and recognizes token
\* lists, the searches advancing one queue item per step

VARIABLES
    corpus,                    \* the grammar trained on (0: none yet)
    compiled,                  \* the graph intents_to_graph returns
    graph_file,                \* the JSON written to the graph path
    graph,                     \* the graph the recognizer holds
    pc,                        \* empty, compiled, idle, strict, fuzzy, done
    tokens,                    \* recognize: tokens
    fuzzy,                     \* recognize: fuzzy
    stop_words,                \* recognize: stop_words
    intent_filter,             \* recognize: intent_filter
    exclude_tokens,            \* paths_strict: exclude_tokens
    node_queue,                \* paths_strict / paths_fuzzy: node_queue
    paths,                     \* recognize: paths (strict)
    intent_symbols_and_costs,  \* paths_fuzzy: intent_symbols_and_costs
    best_cost,                 \* paths_fuzzy: best_cost
    best_fuzzy,                \* recognize: best_fuzzy
    recognitions,              \* what recognize returns
    error,                     \* the exception recognize raises ("": none)
    prev,                      \* the call before this one
    caller,                    \* the caller's side: its token list, its calls
    calls,                     \* calls of recognize that share one graph
    cost_input,                \* default_fuzzy_cost: cost_input
    cost_output,               \* default_fuzzy_cost: what it returns
    expression,                \* expression_to_graph: expression
    number_word,               \* number_utils.py: the word a transform is given
    intents,                   \* sentences_to_graph: its arguments
    template,                  \* Sentence.parse: text, character by character
    parsed,                    \* Sentence.parse: what it returns or raises
    mic_queue,                 \* DefaultVoiceLoop._mic_queue
    mic_thread,                \* _mic_proc: where it is, and its locals
    voice_loop,                \* DefaultVoiceLoop.run: where it is, and its locals
    stt_calls,                 \* the calls of begin_speech and end_speech so far
    input_file,                \* FsticuffsTrainer: the sections of the input file
    output_graph,              \* the file at output_graph
    output_skip_hash,          \* the file at output_skip_hash
    trainer                    \* train_intent: where it is, and its locals

vars ==
    <<corpus, compiled, graph_file, graph, pc, tokens, fuzzy, stop_words,
      intent_filter, exclude_tokens, node_queue, paths, intent_symbols_and_costs,
      best_cost, best_fuzzy, recognitions, error, prev, caller, calls,
      cost_input, cost_output, expression,
      number_word, intents, template, parsed, mic_queue, mic_thread, voice_loop,
      stt_calls, input_file, output_graph, output_skip_hash, trainer>>

\* the variables of the specifications of single functions and of the calls
\* that share a graph, which the steps of the one recognizer leave alone
aside == <<calls, cost_input, cost_output, expression, number_word, intents,
          template, parsed, mic_queue, mic_thread, voice_loop, stt_calls,
          input_file, output_graph, output_skip_hash, trainer>>

NoFile == [directed |-> TRUE, multigraph |-> FALSE, nodes |-> <<>>, links |-> <<>>]

NoCall ==
    [called |-> FALSE, tokens |-> <<>>, word |-> "", intent_symbols_and_costs |-> <<>>]

\* the caller before its first call: tokens is the list object the caller
\* holds (as it is now), given what it held when it made the call, calls the
\* number of calls made with it, recognitions and error what the first
\* call returned
NoCaller ==
    [tokens |-> <<>>, given |-> <<>>, calls |-> 0, recognitions |-> <<>>, error |-> ""]

NoCostInput == [ilabel |-> "", tokens |-> <<>>, stop_words |-> {}]

\* the parts of the program beside the recognizer and the graph compiler,
\* before anything runs in them
NoIntents == [sentences |-> <<>>, add_intent_weights |-> TRUE, exclude_slots_from_counts |-> TRUE]

\* what Sentence.parse gives: the exception it raises ("": none) and the
\* words of the Sentence, in the order of the text
Parsed(raised, sentence_words) == [error |-> raised, words |-> sentence_words]

\* the voice loop and the trainer, where they are not what is looked at
loop_vars == <<mic_queue, mic_thread, voice_loop, stt_calls>>

train_vars == <<input_file, output_graph, output_skip_hash, trainer>>

rest_vars == <<number_word, intents, template, parsed, loop_vars, train_vars>>

NoFileAt == [is_file |-> FALSE, content |-> <<>>]

LoopIdle ==
    /\ mic_queue = <<>>
    /\ mic_thread = [pc |-> "idle"]
    /\ voice_loop = [pc |-> "idle"]
    /\ stt_calls = <<>>

TrainIdle ==
    /\ input_file = <<>>
    /\ output_graph = NoFileAt
    /\ output_skip_hash = NoFileAt
    /\ trainer = [pc |-> "idle"]

RestIdle ==
    /\ number_word = Word("")
    /\ intents = NoIntents
    /\ template = <<>>
    /\ parsed = Parsed("", <<>>)
    /\ LoopIdle
    /\ TrainIdle

NoAside ==
    /\ calls = <<>>
    /\ cost_input = NoCostInput
    /\ cost_output = FuzzyCostOutput(0, TRUE, <<>>, <<>>)
    /\ expression = Word("")
    /\ RestIdle

\* no call of recognize yet
NoSearch ==
    /\ tokens = <<>>
    /\ fuzzy = FALSE
    /\ stop_words = {}
    /\ intent_filter = NoFilter
    /\ exclude_tokens = {}
    /\ node_queue = <<>>
    /\ paths = <<>>
    /\ intent_symbols_and_costs = <<>>
    /\ best_cost = 0
    /\ best_fuzzy = <<>>
    /\ recognitions = <<>>
    /\ error = ""
    /\ prev = NoCall
    /\ caller = NoCaller

Init ==
    /\ corpus = 0
    /\ compiled = EmptyGraph
    /\ graph_file = NoFile
    /\ graph = EmptyGraph
    /\ pc = "empty"
    /\ NoSearch
    /\ NoAside

\* compile the grammar (intents_to_graph with its defaults) and write the
\* graph as JSON (json.dump(graph_to_json(graph)), as train_intent does)
Compile(c) ==
    /\ pc = "empty"
    /\ corpus' = c
    /\ compiled' = intents_to_graph(Corpora[c], <<>>, TRUE, TRUE, TRUE)
    /\ graph_file' = graph_to_json(compiled')
    /\ pc' = "compiled"
    /\ UNCHANGED <<aside, caller, graph, tokens, fuzzy, stop_words, intent_filter, exclude_tokens,
                   node_queue, paths, intent_symbols_and_costs, best_cost,
                   best_fuzzy, recognitions, error, prev>>

\* FsticuffsIntentRecognizer.start: the recognizer loads the graph from the
\* JSON file
Load ==
    /\ pc = "compiled"
    /\ graph' = json_to_graph(graph_file)
    /\ pc' = "idle"
    /\ UNCHANGED <<aside, caller, corpus, compiled, graph_file, tokens, fuzzy, stop_words,
                   intent_filter, exclude_tokens, node_queue, paths,
                   intent_symbols_and_costs, best_cost, best_fuzzy, recognitions,
                   error, prev>>

\* the queue a search starts with; no search on an empty token list
strict_queue(g, toks) ==
    IF toks = <<>> THEN <<>> ELSE <<StrictItem(get_start_node(g), <<>>, toks)>>

fuzzy_queue(g, toks) ==
    IF toks = <<>> THEN <<>>
    ELSE <<FuzzyItem(get_start_node(g), toks, <<>>, 0, 0, "")>>

\* recognize(tokens, graph, fuzzy, stop_words, intent_filter) is called
StartSearch(toks, fz, sw, flt) ==
    /\ tokens' = toks
    /\ fuzzy' = fz
    /\ stop_words' = sw
    /\ intent_filter' = flt
    /\ exclude_tokens' = {}
    /\ node_queue' = IF fz THEN fuzzy_queue(graph, toks) ELSE strict_queue(graph, toks)
    /\ paths' = <<>>
    /\ intent_symbols_and_costs' = <<>>
    /\ best_cost' = initial_best_cost(graph)
    /\ best_fuzzy' = <<>>
    /\ recognitions' = <<>>
    /\ error' = ""
    /\ pc' = IF fz THEN "fuzzy" ELSE "strict"

Recognize(toks, fz, sw, flt) ==
    /\ pc = "idle"
    /\ caller' = [NoCaller EXCEPT !.tokens = toks, !.given = toks, !.calls = 1]
    /\ StartSearch(toks, fz, sw, flt)
    /\ UNCHANGED <<aside, corpus, compiled, graph_file, graph, prev>>

\* the next fuzzy call: the same tokens with one more token somewhere
RecognizeOneMore(pos, word) ==
    /\ pc = "done"
    /\ fuzzy
    /\ ~prev.called
    /\ caller.calls = 1
    /\ error = ""
    /\ Len(tokens) < MaxLen
    /\ prev' = [called |-> TRUE, tokens |-> tokens, word |-> word,
                intent_symbols_and_costs |-> intent_symbols_and_costs]
    /\ caller' = [NoCaller EXCEPT !.tokens = InsertAt(tokens, pos, word),
                                  !.given = InsertAt(tokens, pos, word),
                                  !.calls = 1]
    /\ StartSearch(InsertAt(tokens, pos, word), TRUE, stop_words, intent_filter)
    /\ UNCHANGED <<aside, corpus, compiled, graph_file, graph>>

\* paths_strict: one iteration of the search loop
StrictStep ==
    /\ pc = "strict"
    /\ node_queue # <<>>
    /\ \E r \in {strict_step(graph, node_queue, paths, exclude_tokens, intent_filter)} :
           /\ node_queue' = r.node_queue
           /\ paths' = r.paths
    /\ UNCHANGED <<aside, caller, corpus, compiled, graph_file, graph, pc, tokens, fuzzy,
                   stop_words, intent_filter, exclude_tokens,
                   intent_symbols_and_costs, best_cost, best_fuzzy, recognitions,
                   error, prev>>

\* the same call once more: the caller passes the same list object, the same
\* graph and the same options again
RecognizeAgain ==
    /\ pc = "done"
    /\ caller.calls = 1
    /\ ~prev.called
    /\ caller' = [caller EXCEPT !.calls = 2, !.recognitions = recognitions,
                                !.error = error]
    /\ StartSearch(caller.tokens, fuzzy, stop_words, intent_filter)
    /\ UNCHANGED <<aside, corpus, compiled, graph_file, graph, prev>>

\* without_stop_words that filters the caller's list in place (a variant, to
\* show what building a new list carries)
without_stop_words_in_place(toks, sw) ==
    [tokens |-> SelectSeq(toks, LAMBDA t : t \notin sw),
     arg |-> SelectSeq(toks, LAMBDA t : t \notin sw)]

\* tokens = [t for t in tokens if t not in stop_words]: the local name is
\* bound to a new list (tokens); the list the caller passed (arg) is as it
\* was
without_stop_words(toks, sw) ==
    [tokens |-> SelectSeq(toks, LAMBDA t : t \notin sw),
     arg |-> toks]

\* recognize: no path and stop words given, try again by excluding stop words
StrictRetry ==
    /\ pc = "strict"
    /\ node_queue = <<>>
    /\ paths = <<>>
    /\ stop_words # {}
    /\ exclude_tokens = {}
    /\ \E r \in {without_stop_words(tokens, stop_words)} :
           /\ tokens' = r.tokens
           /\ caller' = [caller EXCEPT !.tokens = r.arg]
           /\ node_queue' = strict_queue(graph, r.tokens)
    /\ exclude_tokens' = stop_words
    /\ UNCHANGED <<aside, corpus, compiled, graph_file, graph, pc, fuzzy, stop_words,
                   intent_filter, paths, intent_symbols_and_costs, best_cost,
                   best_fuzzy, recognitions, error, prev>>

\* recognize, strict: the search is over, every path becomes a Recognition
StrictFinish ==
    /\ pc = "strict"
    /\ node_queue = <<>>
    /\ ~(paths = <<>> /\ stop_words # {} /\ exclude_tokens = {})
    /\ \E r \in {gather_recognitions(
                      [i \in 1..Len(paths) |-> FuzzyResult("", paths[i], 0)],
                      graph, NoRecognitions)} :
           /\ recognitions' = r.recognitions
           /\ error' = r.error
    /\ pc' = "done"
    /\ UNCHANGED <<aside, caller, corpus, compiled, graph_file, graph, tokens, fuzzy, stop_words,
                   intent_filter, exclude_tokens, node_queue, paths,
                   intent_symbols_and_costs, best_cost, best_fuzzy, prev>>

\* paths_fuzzy: one iteration of the search loop
FuzzyStep ==
    /\ pc = "fuzzy"
    /\ node_queue # <<>>
    /\ \E r \in {fuzzy_step(graph, node_queue, intent_symbols_and_costs, best_cost,
                             stop_words, intent_filter)} :
           /\ node_queue' = r.node_queue
           /\ intent_symbols_and_costs' = r.intent_symbols_and_costs
           /\ best_cost' = r.best_cost
    /\ UNCHANGED <<aside, caller, corpus, compiled, graph_file, graph, pc, tokens, fuzzy,
                   stop_words, intent_filter, exclude_tokens, paths, best_fuzzy,
                   recognitions, error, prev>>

\* recognize, fuzzy: the search is over, the best results become Recognitions
FuzzyFinish ==
    /\ pc = "fuzzy"
    /\ node_queue = <<>>
    /\ best_fuzzy' = best_fuzzy_cost(intent_symbols_and_costs)
    /\ \E r \in {gather_recognitions(best_fuzzy', graph, NoRecognitions)} :
           /\ recognitions' = r.recognitions
           /\ error' = r.error
    /\ pc' = "done"
    /\ UNCHANGED <<aside, caller, corpus, compiled, graph_file, graph, tokens, fuzzy, stop_words,
                   intent_filter, exclude_tokens, node_queue, paths,
                   intent_symbols_and_costs, best_cost, prev>>

Next ==
    \/ \E c \in 1..Len(Corpora) : Compile(c)
    \/ Load
    \/ /\ pc = "idle"
       /\ \E toks \in Inputs(corpus), fz \in BOOLEAN,
             sw \in StopWordChoices[corpus], flt \in FilterChoices[corpus] :
               Recognize(toks, fz, sw, flt)
    \/ /\ pc = "done"
       /\ \E pos \in 1..(Len(tokens) + 1), word \in Vocab[corpus] :
               RecognizeOneMore(pos, word)
    \/ RecognizeAgain
    \/ StrictStep
    \/ StrictRetry
    \/ StrictFinish
    \/ FuzzyStep
    \/ FuzzyFinish

Spec == Init /\ [][Next]_vars

\* ------------------------------------------------------------------------
\* Properties of strict recognition

\* the recognitions that name intent_name
named(intent_name) ==
    {k \in 1..Len(recognitions) : recognitions[k].intent.name = intent_name}

\* a strict call without intent filter, finished on the tokens it was given
\* (no second search with the stop words excluded), on a grammar without
\* slots
StrictCallDone ==
    /\ pc = "done"
    /\ ~fuzzy
    /\ ~intent_filter.given
    /\ exclude_tokens = {}
    /\ ~HasSlots(corpus)

IsIntentEdge(edge) == IsLabelOp(edge.olabel, "label")

\* the edge sequences that lead from node to a final node in at most fuel
\* edges
RECURSIVE paths_from(_, _, _)
paths_from(g, node, fuel) ==
    (IF is_final_node(g, node) THEN {<<>>} ELSE {})
    \cup (IF fuel = 0 THEN {}
          ELSE UNION {{<<e>> \o p : p \in paths_from(g, e.dst, fuel - 1)} :
                         e \in Range(successors(g, node))})

accepting_paths(g) == paths_from(g, get_start_node(g), len(g))

\* C2: every path of the compiled graph from the start state to the final
\* state has exactly one __label__ edge, its first edge, and every
\* Recognition made from an accepted path names an intent of the grammar
C2_OneIntentEdgePerPath ==
    /\ pc = "compiled" =>
           \A p \in accepting_paths(compiled) :
               /\ p # <<>>
               /\ IsIntentEdge(p[1])
               /\ \A k \in 2..Len(p) : ~IsIntentEdge(p[k])
    /\ (pc = "done" /\ error = "") =>
           \A k \in 1..Len(recognitions) :
               recognitions[k].intent.name \in Range(IntentNames(corpus))

\* the graph of the grammar with two intents, rules and converters: more
\* than one accepting path per intent
C2_Witness ==
    /\ pc = "compiled"
    /\ corpus = 4
    /\ Cardinality(accepting_paths(compiled)) > 4
    /\ \E p \in accepting_paths(compiled) : Len(p) > 4

\* ------------------------------------------------------------------------
\* Properties of numbers in a grammar

\* C3: on the grammar "set temperature to (70..73){temperature}", compiled
\* with number replacement, the tokens "set temperature to 72" are
\* recognized as SetTemp with one entity, temperature, of integer value 72
\* and raw value "72"
C3_DigitTokenRecognized ==
    (/\ pc = "done"
     /\ corpus = 2
     /\ ~fuzzy
     /\ exclude_tokens = {}
     /\ tokens = <<"set", "temperature", "to", "72">>) =>
        /\ Len(recognitions) = 1
        /\ recognitions[1].intent.name = "SetTemp"
        /\ Len(recognitions[1].entities) = 1
        /\ recognitions[1].entities[1].entity = "temperature"
        /\ recognitions[1].entities[1].value = [Plain("72") EXCEPT !.t = "int"]
        /\ recognitions[1].entities[1].raw_value = "72"

\* ------------------------------------------------------------------------
\* Properties of fuzzy recognition

\* C4, as stated: on the grammar "hello [world]" the token list [hi] has no
\* strict match, and fuzzy recognition of [hi] with the stop word hi returns
\* a Recognition of Greet with a confidence below 1
C4_StopWordOnlyInputMatches ==
    (pc = "done" /\ corpus = 1 /\ tokens = <<"hi">>) =>
        /\ ~fuzzy => recognitions = <<>>
        /\ (fuzzy /\ stop_words = {"hi"}) =>
               \E k \in 1..Len(recognitions) :
                   /\ recognitions[k].intent.name = "Greet"
                   /\ recognitions[k].intent.confidence[1]
                          < recognitions[k].intent.confidence[2]

\* C4, amended: a token list with no word of the grammar has no match,
\* strict or fuzzy, stop words or not (on "hello [world]", [hi] returns
\* nothing even with the stop word hi); beside a word of the grammar the
\* stop word is skipped at a cost of 0.1: [hi, hello] with the stop word hi
\* returns one Recognition of Greet with confidence 0.9
C4_NoGrammarWordNoMatch ==
    /\ (pc = "done" /\ Range(tokens) \cap GrammarWords(corpus) = {}) =>
           /\ recognitions = <<>>
           /\ error = ""
    /\ (/\ pc = "done"
        /\ corpus = 1
        /\ fuzzy
        /\ stop_words = {"hi"}
        /\ tokens = <<"hi", "hello">>) =>
           /\ Len(recognitions) = 1
           /\ recognitions[1].intent.name = "Greet"
           /\ recognitions[1].intent.confidence = Confidence(9, 10)

\* the fuzzy search of [hi] with the stop word hi ended with no result
C4_Witness ==
    /\ pc = "done"
    /\ corpus = 1
    /\ fuzzy
    /\ stop_words = {"hi"}
    /\ tokens = <<"hi">>
    /\ intent_symbols_and_costs = <<>>
    /\ recognitions = <<>>

\* C5: every Recognition has a confidence between 0 and 1, which is 1 for a
\* strict match
C5_ConfidenceInUnitInterval ==
    pc = "done" =>
        \A k \in 1..Len(recognitions) :
            /\ recognitions[k].intent.confidence[2] > 0
            /\ recognitions[k].intent.confidence[1] >= 0
            /\ recognitions[k].intent.confidence[1] <= recognitions[k].intent.confidence[2]
            /\ ~fuzzy => recognitions[k].intent.confidence = FullConfidence

\* C6: when fuzzy matching accepted the tokens for an intent at cost 0, the
\* same tokens with one more token, no word of the grammar, at any position
\* are accepted for the same intent, at a cost of at least 1, or of exactly
\* 0.1 when the token is a stop word
C6_InsertedTokenCost ==
    (pc = "done" /\ prev.called /\ prev.word \notin GrammarWords(corpus)) =>
        \A i \in 1..Len(prev.intent_symbols_and_costs) :
            prev.intent_symbols_and_costs[i].results[1].cost = 0 =>
                /\ dict_has(intent_symbols_and_costs,
                            prev.intent_symbols_and_costs[i].intent_name)
                /\ \A r \in Range(dict_get(intent_symbols_and_costs,
                                           prev.intent_symbols_and_costs[i].intent_name)) :
                       IF prev.word \in stop_words
                       THEN r.cost = StopWordCost
                       ELSE r.cost >= MismatchCost

\* ------------------------------------------------------------------------
\* Properties of the intent filter

\* the output labels of the edges along a list of nodes
labels_along(g, nodes) ==
    {edge_data(g, nodes[k], nodes[k + 1]).olabel : k \in 1..(Len(nodes) - 1)}

\* no __label__ edge of an intent outside the filter along the nodes
accepted_along(g, nodes) ==
    \A olabel \in labels_along(g, nodes) :
        IsLabelOp(olabel, "label") => olabel.arg \in intent_filter.accept

nodes_of(path) == [k \in 1..Len(path) |-> path[k].node]

\* C9: with an intent filter, no search traverses a __label__ edge of an
\* intent the filter rejects: no queue item, no returned path, no FuzzyResult
\* and no Recognition is of a rejected intent
C9_RejectedIntentsPruned ==
    intent_filter.given =>
        /\ pc = "strict" =>
               \A k \in 1..Len(node_queue) :
                   accepted_along(graph, Append(nodes_of(node_queue[k].path),
                                                node_queue[k].node))
        /\ pc = "fuzzy" =>
               \A k \in 1..Len(node_queue) :
                   /\ accepted_along(graph, Append(nodes_of(node_queue[k].out_path),
                                                   node_queue[k].node))
                   /\ node_queue[k].intent # "" =>
                          node_queue[k].intent \in intent_filter.accept
        /\ \A k \in 1..Len(paths) : accepted_along(graph, nodes_of(paths[k]))
        /\ \A i \in 1..Len(intent_symbols_and_costs) :
               /\ intent_symbols_and_costs[i].intent_name \in intent_filter.accept
               /\ \A r \in Range(intent_symbols_and_costs[i].results) :
                      /\ r.intent_name \in intent_filter.accept
                      /\ accepted_along(graph, nodes_of(r.node_path))
        /\ \A r \in Range(best_fuzzy) : r.intent_name \in intent_filter.accept
        /\ \A k \in 1..Len(recognitions) :
               recognitions[k].intent.name \in intent_filter.accept

\* "turn on" is a sentence of LightOn and of Power; with the filter that
\* accepts LightOn only there is one Recognition
C9_Witness ==
    /\ pc = "done"
    /\ corpus = 3
    /\ ~fuzzy
    /\ intent_filter = Filter({"LightOn"})
    /\ tokens = <<"turn", "on">>
    /\ Derivations(corpus, 2, tokens) = 1
    /\ Len(recognitions) = 1
    /\ recognitions[1].intent.name = "LightOn"

\* ------------------------------------------------------------------------
\* Properties of the JSON form

MaxIntents == 3

\* largest cost of a result, in tenths
MaxCost == 3

\* most results of one intent
MaxResults == 2

BestIntents == {"a", "b", "c"}

\* the results of one intent: all of the same cost, as paths_fuzzy keeps them
intent_results(intent_name, cost, count) ==
    [intent_name |-> intent_name,
     results |-> [k \in 1..count |->
                     FuzzyResult(intent_name, <<PathNode(k, <<>>)>>, cost)]]

KeyOrders ==
    {o \in BoundedSeqs(BestIntents, MaxIntents) :
        \A i, j \in 1..Len(o) : i # j => o[i] # o[j]}

BestInputs ==
    UNION {{[i \in 1..Len(o) |-> intent_results(o[i], cc[i][1], cc[i][2])] :
               cc \in [1..Len(o) -> (0..MaxCost) \X (1..MaxResults)]} :
           o \in KeyOrders}

InitBest ==
    /\ corpus = 0
    /\ compiled = EmptyGraph
    /\ graph_file = NoFile
    /\ graph = EmptyGraph
    /\ pc = "best"
    /\ tokens = <<>>
    /\ fuzzy = TRUE
    /\ stop_words = {}
    /\ intent_filter = NoFilter
    /\ exclude_tokens = {}
    /\ node_queue = <<>>
    /\ paths = <<>>
    /\ intent_symbols_and_costs \in BestInputs
    /\ best_cost = 0
    /\ best_fuzzy = <<>>
    /\ recognitions = <<>>
    /\ error = ""
    /\ prev = NoCall
    /\ caller = NoCaller
    /\ NoAside

\* best_fuzzy = best_fuzzy_cost(intent_symbols_and_costs)
BestFuzzyCost ==
    /\ pc = "best"
    /\ best_fuzzy' = best_fuzzy_cost(intent_symbols_and_costs)
    /\ pc' = "best_done"
    /\ UNCHANGED <<aside, caller, corpus, compiled, graph_file, graph, tokens, fuzzy, stop_words,
                   intent_filter, exclude_tokens, node_queue, paths,
                   intent_symbols_and_costs, best_cost, recognitions, error, prev>>

NextBest == BestFuzzyCost

SpecBest == InitBest /\ [][NextBest]_vars

all_results(dict) == UNION {Range(dict[i].results) : i \in 1..Len(dict)}

lowest_results(dict) ==
    {r \in all_results(dict) : \A q \in all_results(dict) : r.cost <= q.cost}

\* C7: best_fuzzy_cost returns exactly the results of the lowest cost over
\* all intents, each once, whatever the order of the intents in the dict
C7_BestAreTheLowest ==
    pc = "best_done" =>
        /\ Range(best_fuzzy) = lowest_results(intent_symbols_and_costs)
        /\ Len(best_fuzzy) = Cardinality(lowest_results(intent_symbols_and_costs))

\* ------------------------------------------------------------------------
\* path_to_recognition on its own: a path along a chain of edges whose
\* output labels are entity markers and words in any order, within the bound

\* most markers and words on a path
MaxMarkers == 4

Markers ==
    {Label("begin", "a"), Label("begin", "b"), Label("end", "a"), Label("end", "b"),
     Plain("w")}

IsWordMarker(marker) == marker.op = "word"

\* node 0 --__label__I--> node 1 --markers[1]--> node 2 ... ; a word edge
\* reads its word and leads to a node of that word
chain_graph(markers) ==
    [nodes |-> [i \in 1..(Len(markers) + 2) |->
                  [NewNode(i - 1) EXCEPT
                      !.start = (i = 1),
                      !.final = (i = Len(markers) + 2),
                      !.has_word = (i > 2 /\ IsWordMarker(markers[i - 2])),
                      !.word = IF i > 2 /\ IsWordMarker(markers[i - 2])
                               THEN markers[i - 2].arg ELSE ""]],
     edges |-> [i \in 1..(Len(markers) + 1) |->
                  IF i = 1
                  THEN MakeEdge(0, 1, intent_edge(Label("label", "I"), FALSE, 0, NoWeight),
                                EdgeData("", NoLabel, <<>>))
                  ELSE MakeEdge(i - 1, i,
                                EdgeData(IF IsWordMarker(markers[i - 1])
                                         THEN markers[i - 1].arg ELSE "",
                                         markers[i - 1],
                                         EdgeLabel("", markers[i - 1], "")),
                                EdgeData("", NoLabel, <<>>))],
     error |-> ""]

\* the path along the chain, each node with the token its edge matched
chain_path(markers) ==
    [i \in 1..(Len(markers) + 2) |->
        PathNode(i - 1, IF i > 1 /\ i <= Len(markers) + 1 /\ IsWordMarker(markers[i - 1])
                        THEN <<markers[i - 1].arg>> ELSE <<>>)]

InitInterp ==
    /\ corpus = 0
    /\ compiled = EmptyGraph
    /\ graph_file = NoFile
    /\ \E markers \in BoundedSeqs(Markers, MaxMarkers) :
           /\ graph = chain_graph(markers)
           /\ paths = <<chain_path(markers)>>
    /\ pc = "interp"
    /\ tokens = <<>>
    /\ fuzzy = FALSE
    /\ stop_words = {}
    /\ intent_filter = NoFilter
    /\ exclude_tokens = {}
    /\ node_queue = <<>>
    /\ intent_symbols_and_costs = <<>>
    /\ best_cost = 0
    /\ best_fuzzy = <<>>
    /\ recognitions = <<>>
    /\ error = ""
    /\ prev = NoCall
    /\ caller = NoCaller
    /\ NoAside

\* result, recognition = path_to_recognition(path, graph)
Interpret ==
    /\ pc = "interp"
    /\ \E r \in {path_to_recognition(paths[1], graph, 0)} :
           /\ recognitions' = IF r.result = "SUCCESS" THEN <<r.recognition>> ELSE <<>>
           /\ error' = r.error
    /\ pc' = "interp_done"
    /\ UNCHANGED <<aside, caller, corpus, compiled, graph_file, graph, tokens, fuzzy, stop_words,
                   intent_filter, exclude_tokens, node_queue, paths,
                   intent_symbols_and_costs, best_cost, best_fuzzy, prev>>

NextInterp == Interpret

SpecInterp == InitInterp /\ [][NextInterp]_vars

\* the output labels along the chain, after the intent edge
markers_of(g) == [i \in 1..(Len(g.edges) - 1) |-> g.edges[i + 1].olabel]

\* the entities left open after the markers, or a fault: an __end__ that
\* does not close the innermost open entity
RECURSIVE marker_stack(_, _)
marker_stack(markers, stack) ==
    IF markers = <<>> THEN [fault |-> FALSE, stack |-> stack]
    ELSE IF Head(markers).op = "begin"
    THEN marker_stack(Tail(markers), Append(stack, Head(markers).arg))
    ELSE IF Head(markers).op = "end"
    THEN IF stack = <<>> \/ stack[Len(stack)] # Head(markers).arg
         THEN [fault |-> TRUE, stack |-> stack]
         ELSE marker_stack(Tail(markers), SubSeq(stack, 1, Len(stack) - 1))
    ELSE marker_stack(Tail(markers), stack)

well_nested(markers) ==
    ~marker_stack(markers, <<>>).fault /\ marker_stack(markers, <<>>).stack = <<>>

\* C8: path_to_recognition raises, and returns no Recognition, on every path
\* whose entity markers are not balanced and properly nested: an __end__ of
\* another entity than the innermost open one, an __end__ with no entity
\* open, a __begin__ never closed
C8_UnbalancedMarkersRaise ==
    (pc = "interp_done" /\ ~well_nested(markers_of(graph))) =>
        /\ error # ""
        /\ recognitions = <<>>

\* ------------------------------------------------------------------------
\* Properties of repeated and interleaved calls

RECURSIVE paths_strict_loop(_, _, _, _, _)
paths_strict_loop(g, queue, found, exclude, flt) ==
    IF queue = <<>> THEN found
    ELSE LET r == strict_step(g, queue, found, exclude, flt)
         IN  paths_strict_loop(g, r.node_queue, r.paths, exclude, flt)

paths_strict(toks, g, exclude, flt) ==
    paths_strict_loop(g, strict_queue(g, toks), <<>>, exclude, flt)

\* paths_fuzzy from its first line to its last: intent_symbols_and_costs
RECURSIVE paths_fuzzy_loop(_, _, _, _, _, _)
paths_fuzzy_loop(g, queue, dict, best, sw, flt) ==
    IF queue = <<>> THEN dict
    ELSE LET r == fuzzy_step(g, queue, dict, best, sw, flt)
         IN  paths_fuzzy_loop(g, r.node_queue, r.intent_symbols_and_costs,
                              r.best_cost, sw, flt)

paths_fuzzy(toks, g, sw, flt) ==
    paths_fuzzy_loop(g, fuzzy_queue(g, toks), <<>>, initial_best_cost(g), sw, flt)

as_results(found) == [i \in 1..Len(found) |-> FuzzyResult("", found[i], 0)]

\* recognize, strict: the paths of the first search, or of the search
\* without the stop words when the first finds none
strict_paths(toks, g, sw, flt) ==
    LET first == paths_strict(toks, g, {}, flt)
    IN  IF first = <<>> /\ sw # {}
        THEN paths_strict(without_stop_words(toks, sw).tokens, g, sw, flt)
        ELSE first

\* recognize(tokens, graph, fuzzy, stop_words, intent_filter): the
\* Recognitions it returns and the exception it raises
recognize(toks, g, fz, sw, flt) ==
    IF fz
    THEN gather_recognitions(best_fuzzy_cost(paths_fuzzy(toks, g, sw, flt)),
                             g, NoRecognitions)
    ELSE gather_recognitions(as_results(strict_paths(toks, g, sw, flt)),
                             g, NoRecognitions)

Callers == {1, 2}

\* a caller that has not called yet: given is the token list it passes, arg
\* the same list object as it is now, the rest the locals of its call
IdleCall ==
    [pc |-> "idle", given |-> <<>>, arg |-> <<>>, tokens |-> <<>>, fuzzy |-> FALSE,
     stop_words |-> {}, intent_filter |-> NoFilter, exclude_tokens |-> {},
     node_queue |-> <<>>, paths |-> <<>>, intent_symbols_and_costs |-> <<>>,
     best_cost |-> 0, recognitions |-> <<>>, error |-> ""]

\* the calls made on the shared graph, compiled from the third grammar
SharedArgs ==
    {[tokens |-> <<"turn", "on">>, fuzzy |-> FALSE, stop_words |-> {},
      intent_filter |-> NoFilter],
     [tokens |-> <<"turn", "x", "on">>, fuzzy |-> FALSE, stop_words |-> {"x"},
      intent_filter |-> Filter({"LightOn"})],
     [tokens |-> <<"turn", "off", "x">>, fuzzy |-> TRUE, stop_words |-> {},
      intent_filter |-> NoFilter],
     [tokens |-> <<"x", "turn">>, fuzzy |-> TRUE, stop_words |-> {"x"},
      intent_filter |-> NoFilter]}

InitShared ==
    /\ corpus = 3
    /\ compiled = intents_to_graph(CorpusHome, <<>>, TRUE, TRUE, TRUE)
    /\ graph_file = graph_to_json(compiled)
    /\ graph = json_to_graph(graph_file)
    /\ pc = "shared"
    /\ NoSearch
    /\ calls = [p \in Callers |-> IdleCall]
    /\ cost_input = NoCostInput
    /\ cost_output = FuzzyCostOutput(0, TRUE, <<>>, <<>>)
    /\ expression = Word("")
    /\ RestIdle

\* what a step of a call leaves alone: the graph and the other calls
SharedRest ==
    UNCHANGED <<corpus, compiled, graph_file, graph, pc, tokens, fuzzy, stop_words,
                intent_filter, exclude_tokens, node_queue, paths,
                intent_symbols_and_costs, best_cost, best_fuzzy, recognitions,
                error, prev, caller, cost_input, cost_output, expression, rest_vars>>

\* caller p calls recognize
CallRecognize(p, a) ==
    /\ calls[p].pc = "idle"
    /\ calls' = [calls EXCEPT ![p] =
           [IdleCall EXCEPT
               !.pc = IF a.fuzzy THEN "fuzzy" ELSE "strict",
               !.given = a.tokens, !.arg = a.tokens, !.tokens = a.tokens,
               !.fuzzy = a.fuzzy, !.stop_words = a.stop_words,
               !.intent_filter = a.intent_filter,
               !.node_queue = IF a.fuzzy THEN fuzzy_queue(graph, a.tokens)
                              ELSE strict_queue(graph, a.tokens),
               !.best_cost = initial_best_cost(graph)]]
    /\ SharedRest

\* paths_strict of caller p: one iteration of the search loop
CallStrictStep(p) ==
    /\ calls[p].pc = "strict"
    /\ calls[p].node_queue # <<>>
    /\ \E r \in {strict_step(graph, calls[p].node_queue, calls[p].paths,
                              calls[p].exclude_tokens, calls[p].intent_filter)} :
           calls' = [calls EXCEPT ![p].node_queue = r.node_queue,
                                  ![p].paths = r.paths]
    /\ SharedRest

\* recognize of caller p: try again by excluding stop words
CallStrictRetry(p) ==
    /\ calls[p].pc = "strict"
    /\ calls[p].node_queue = <<>>
    /\ calls[p].paths = <<>>
    /\ calls[p].stop_words # {}
    /\ calls[p].exclude_tokens = {}
    /\ \E r \in {without_stop_words(calls[p].tokens, calls[p].stop_words)} :
           calls' = [calls EXCEPT ![p].tokens = r.tokens,
                                  ![p].arg = r.arg,
                                  ![p].exclude_tokens = calls[p].stop_words,
                                  ![p].node_queue = strict_queue(graph, r.tokens)]
    /\ SharedRest

\* recognize of caller p, strict: every path becomes a Recognition
CallStrictFinish(p) ==
    /\ calls[p].pc = "strict"
    /\ calls[p].node_queue = <<>>
    /\ ~(calls[p].paths = <<>> /\ calls[p].stop_words # {}
         /\ calls[p].exclude_tokens = {})
    /\ \E r \in {gather_recognitions(as_results(calls[p].paths), graph,
                                      NoRecognitions)} :
           calls' = [calls EXCEPT ![p].recognitions = r.recognitions,
                                  ![p].error = r.error,
                                  ![p].pc = "done"]
    /\ SharedRest

\* paths_fuzzy of caller p: one iteration of the search loop
CallFuzzyStep(p) ==
    /\ calls[p].pc = "fuzzy"
    /\ calls[p].node_queue # <<>>
    /\ \E r \in {fuzzy_step(graph, calls[p].node_queue,
                             calls[p].intent_symbols_and_costs, calls[p].best_cost,
                             calls[p].stop_words, calls[p].intent_filter)} :
           calls' = [calls EXCEPT
                        ![p].node_queue = r.node_queue,
                        ![p].intent_symbols_and_costs = r.intent_symbols_and_costs,
                        ![p].best_cost = r.best_cost]
    /\ SharedRest

\* recognize of caller p, fuzzy: the best results become Recognitions
CallFuzzyFinish(p) ==
    /\ calls[p].pc = "fuzzy"
    /\ calls[p].node_queue = <<>>
    /\ \E r \in {gather_recognitions(
                      best_fuzzy_cost(calls[p].intent_symbols_and_costs), graph,
                      NoRecognitions)} :
           calls' = [calls EXCEPT ![p].recognitions = r.recognitions,
                                  ![p].error = r.error,
                                  ![p].pc = "done"]
    /\ SharedRest

NextShared ==
    \E p \in Callers :
        \/ \E a \in SharedArgs : CallRecognize(p, a)
        \/ CallStrictStep(p)
        \/ CallStrictRetry(p)
        \/ CallStrictFinish(p)
        \/ CallFuzzyStep(p)
        \/ CallFuzzyFinish(p)

SpecShared == InitShared /\ [][NextShared]_vars

\* the result of a call of recognize on its own
alone(call) ==
    recognize(call.given, graph, call.fuzzy, call.stop_words, call.intent_filter)

C13_ExcludedLabelBypass ==
    (pc = "strict" /\ node_queue # <<>>) =>
        \A edge \in Range(successors(graph, Head(node_queue).node)) :
            edge.ilabel # "" =>
                \E next \in {strict_edge(Head(node_queue), edge, exclude_tokens,
                                         intent_filter)} :
                    IF Head(node_queue).tokens # <<>>
                       /\ edge.ilabel = Head(Head(node_queue).tokens)
                    THEN /\ Len(next) = 1
                         /\ next[1].node = edge.dst
                         /\ next[1].tokens = Tail(Head(node_queue).tokens)
                    ELSE /\ (next # <<>>) <=> (edge.ilabel \in exclude_tokens)
                         /\ next # <<>> =>
                                /\ next[1].node = edge.dst
                                /\ next[1].tokens = Head(node_queue).tokens

\* the results paths_fuzzy holds for an intent after the step on the head of
\* the queue
results_after_step(intent_name) ==
    dict_get(fuzzy_step(graph, node_queue, intent_symbols_and_costs, best_cost,
                        stop_words, intent_filter).intent_symbols_and_costs,
             intent_name)

\* C14: when paths_fuzzy takes from the queue an item at a final state whose
\* path went over at least one output word, the step records it with the
\* cost "accumulated cost plus one per input token left" (unless the intent
\* already has a cheaper result, which is kept)
C14_FinalItemRecorded ==
    (/\ pc = "fuzzy"
     /\ node_queue # <<>>
     /\ is_final_node(graph, Head(node_queue).node)
     /\ Head(node_queue).out_count >= 1) =>
        \E results \in {results_after_step(Head(node_queue).intent)} :
            /\ results # <<>>
            /\ results[1].cost <= Head(node_queue).cost
                                      + 10 * Len(Head(node_queue).in_tokens)
            /\ \/ \E k \in 1..Len(results) :
                      /\ results[k].node_path = Head(node_queue).out_path
                      /\ results[k].cost = Head(node_queue).cost
                                               + 10 * Len(Head(node_queue).in_tokens)
               \/ results[1].cost < Head(node_queue).cost
                                        + 10 * Len(Head(node_queue).in_tokens)
\* ------------------------------------------------------------------------
\* default_fuzzy_cost on its own: every input label against every token
\* list of the bounded vocabulary, with and without stop words

CostLabels == {"", WILDCARD, "a", "b"}

CostTokens == {"a", "b", "s", "x"}

CostStopWords == {{}, {"s"}, {"s", "b"}}

InitCost ==
    /\ corpus = 0
    /\ compiled = EmptyGraph
    /\ graph_file = NoFile
    /\ graph = EmptyGraph
    /\ pc = "cost"
    /\ NoSearch
    /\ calls = <<>>
    /\ cost_input \in [ilabel : CostLabels,
                       tokens : BoundedSeqs(CostTokens, MaxLen),
                       stop_words : CostStopWords]
    /\ cost_output = FuzzyCostOutput(0, TRUE, <<>>, <<>>)
    /\ expression = Word("")
    /\ RestIdle

\* cost_output = cost_function(cost_input)
FuzzyCost ==
    /\ pc = "cost"
    /\ cost_output' = default_fuzzy_cost(cost_input.ilabel, cost_input.tokens,
                                         cost_input.stop_words)
    /\ pc' = "cost_done"
    /\ UNCHANGED <<corpus, compiled, graph_file, graph, tokens, fuzzy, stop_words,
                   intent_filter, exclude_tokens, node_queue, paths,
                   intent_symbols_and_costs, best_cost, best_fuzzy, recognitions,
                   error, prev, caller, calls, cost_input, expression,
                   rest_vars>>

NextCost == FuzzyCost

SpecCost == InitCost /\ [][NextCost]_vars

\* the positions of the tokens equal to the label
matches(ilabel, toks) == {i \in 1..Len(toks) : toks[i] = ilabel}

first_match(ilabel, toks) ==
    CHOOSE i \in matches(ilabel, toks) : \A j \in matches(ilabel, toks) : i <= j

\* 0.1 for each of the tokens in stop_words, 1 for each other one, in tenths
discard_cost(toks, sw) ==
    Cardinality({i \in 1..Len(toks) : toks[i] \in sw})
        + 10 * Cardinality({i \in 1..Len(toks) : toks[i] \notin sw})

\* C15: default_fuzzy_cost consumes nothing at cost 0 for an empty label;
\* consumes one token at cost 0.1 for the wildcard label when a token is
\* left; otherwise discards the tokens before the first one equal to the
\* label, at 0.1 per stop word and 1 per other token, and consumes that
\* token; and ends the branch (continue_search false) when no token equals
\* the label
C15_DefaultFuzzyCost ==
    pc = "cost_done" =>
        IF cost_input.ilabel = ""
        THEN cost_output = FuzzyCostOutput(0, TRUE, <<>>, cost_input.tokens)
        ELSE IF cost_input.ilabel = WILDCARD /\ cost_input.tokens # <<>>
        THEN cost_output = FuzzyCostOutput(1, TRUE, <<Head(cost_input.tokens)>>,
                                           Tail(cost_input.tokens))
        ELSE IF matches(cost_input.ilabel, cost_input.tokens) # {}
        THEN \E i \in {first_match(cost_input.ilabel, cost_input.tokens)} :
                 cost_output =
                     FuzzyCostOutput(
                         discard_cost(SubSeq(cost_input.tokens, 1, i - 1),
                                      cost_input.stop_words),
                         TRUE, <<cost_input.tokens[i]>>,
                         SubSeq(cost_input.tokens, i + 1, Len(cost_input.tokens)))
        ELSE ~cost_output.continue_search

\* two tokens discarded before the match, one of them a stop word: cost 1.1
C15_Witness ==
    /\ pc = "cost_done"
    /\ cost_input.ilabel = "a"
    /\ cost_input.tokens = <<"s", "x", "a">>
    /\ cost_input.stop_words = {"s"}
    /\ cost_output = FuzzyCostOutput(11, TRUE, <<"a">>, <<>>)

\* ------------------------------------------------------------------------
\* expression_to_graph on expression trees: a tree is drawn, compiled as the
\* one sentence of one intent, and its own sentences are recognized on the
\* graph

\* the slots of the trees: "$s" and a slot whose name has a space in it
ExprReplacements ==
    <<[key |-> <<"$", "s">>, values |-> <<Word("room")>>],
      [key |-> <<"$", "my slot">>, values |-> <<Word("living")>>]>>

ExprAtoms == {Word("light"), SlotReference(<<"s">>), SlotReference(<<"my slot">>)}

\* an expression as it is, with a substitution, with a converter, with a
\* tag (plain, with a substitution, with a converter), with a converter of
\* its own and one of its tag, with a substitution and a tag
Decorated(e) ==
    {e,
     WithSub(e, <<"cook">>),
     WithConv(e, <<"upper">>),
     WithTag(e, Tag("t")),
     WithTag(e, WithSub(Tag("living room"), <<"1">>)),
     WithTag(e, WithConv(Tag("t"), <<"lower">>)),
     WithTag(WithConv(e, <<"upper">>), WithConv(Tag("t"), <<"lower">>)),
     WithTag(WithSub(e, <<"cook">>), Tag("t"))}

\* (on e) and (e | on), decorated
Enclosed(S) ==
    UNION {Decorated(Group(<<Word("on"), e>>))
               \cup Decorated(Alternative(<<e, Word("on")>>)) : e \in S}

ExprLeaves == UNION {Decorated(e) : e \in ExprAtoms}

Expressions == ExprLeaves \cup Enclosed(ExprLeaves) \cup Enclosed(Enclosed(ExprLeaves))

ExprIntent == "Turn On"

InitExpr ==
    /\ corpus = 0
    /\ compiled = EmptyGraph
    /\ graph_file = NoFile
    /\ graph = EmptyGraph
    /\ pc = "expr"
    /\ NoSearch
    /\ calls = <<>>
    /\ cost_input = NoCostInput
    /\ cost_output = FuzzyCostOutput(0, TRUE, <<>>, <<>>)
    /\ expression \in Expressions
    /\ RestIdle

\* sentences_to_graph on the one sentence
CompileExpression ==
    /\ pc = "expr"
    /\ compiled' = sentences_to_graph(
                       <<[intent_name |-> ExprIntent, sentences |-> <<expression>>]>>,
                       ExprReplacements, TRUE, TRUE, TRUE)
    /\ graph' = compiled'
    /\ pc' = "expr_compiled"
    /\ UNCHANGED <<aside, caller, corpus, graph_file, tokens, fuzzy, stop_words,
                   intent_filter, exclude_tokens, node_queue, paths,
                   intent_symbols_and_costs, best_cost, best_fuzzy, recognitions,
                   error, prev>>

\* recognize(tokens, graph) on a sentence of the expression: the paths of
\* the strict search and the Recognitions made from them
RecognizeExpression ==
    /\ pc = "expr_compiled"
    /\ \E toks \in Range(expand(expression, ExprReplacements, ExprIntent)) :
           /\ tokens' = toks
           /\ paths' = paths_strict(toks, graph, {}, NoFilter)
    /\ \E r \in {gather_recognitions(as_results(paths'), graph, NoRecognitions)} :
           /\ recognitions' = r.recognitions
           /\ error' = r.error
    /\ pc' = "expr_done"
    /\ UNCHANGED <<aside, caller, corpus, compiled, graph_file, graph, fuzzy,
                   stop_words, intent_filter, exclude_tokens, node_queue,
                   intent_symbols_and_costs, best_cost, best_fuzzy, prev>>

NextExpr == CompileExpression \/ RecognizeExpression

SpecExpr == InitExpr /\ [][NextExpr]_vars

\* the output label of an edge as the interpreter reads it
read_olabel(edge) == IF edge.olabel.packed THEN unpack(edge.olabel) ELSE edge.olabel

\* the output labels along a path of edges, after the intent edge
olabels_of(p) == [i \in 1..(Len(p) - 1) |-> read_olabel(p[i + 1])]

\* the words among output labels: neither empty nor a marker
words_out(olabels) ==
    [i \in 1..Len(SelectSeq(olabels, LAMBDA o : o.op = "word" /\ o.arg # "")) |->
        SelectSeq(olabels, LAMBDA o : o.op = "word" /\ o.arg # "")[i].arg]

\* an expression with a substitution of its own or of its tag
HasOuterSubstitution(e) == e.has_substitution \/ e.tag.has_substitution

outermost_substitution(e) ==
    IF e.has_substitution THEN e.substitution ELSE e.tag.substitution

\* C16: an expression that carries a substitution (its own or its tag's)
\* compiles to a sub-graph every path of which emits the tokens of that
\* outermost substitution exactly once and nothing else: no literal word of
\* a descendant and no tokens of a substitution further in, an inner tag's
\* substitution included
C16_OutermostSubstitutionOnly ==
    (pc = "expr_compiled" /\ HasOuterSubstitution(expression)) =>
        \A p \in accepting_paths(compiled) :
            words_out(olabels_of(p)) = outermost_substitution(expression)

\* some expression under the outermost substitution carries a tag with a
\* substitution
RECURSIVE has_inner_tag_substitution(_)
has_inner_tag_substitution(e) ==
    \E i \in 1..Len(e.items) :
        \/ e.items[i].tag.has_substitution
        \/ has_inner_tag_substitution(e.items[i])

\* the same, for the expressions without a tag substitution further in
C16_WithoutInnerTagSubstitution ==
    (pc = "expr_compiled" /\ HasOuterSubstitution(expression)
       /\ ~has_inner_tag_substitution(expression)) =>
        \A p \in accepting_paths(compiled) :
            words_out(olabels_of(p)) = outermost_substitution(expression)

\* ------------------------------------------------------------------------
\* Properties of the Recognitions made from compiled paths

\* the output labels along a node path of the graph, after the intent edge
path_olabels(node_path, g) ==
    [i \in 1..(Len(node_path) - 2) |->
        read_olabel(edge_data(g, node_path[i + 1].node, node_path[i + 2].node))]

\* a token through the converters open around it, the innermost first
RECURSIVE through(_, _)
through(converters, token) ==
    IF converters = <<>> THEN token
    ELSE through(SubSeq(converters, 1, Len(converters) - 1),
                 converter_func(converters[Len(converters)], <<token>>).values[1])

\* the entities the markers along a path delimit, in the order their
\* __end__ markers come: each with the output tokens between its __begin__
\* and its __end__, passed through the converters open around them
RECURSIVE spans(_, _, _, _)
spans(olabels, converters, open, closed) ==
    IF olabels = <<>> THEN closed
    ELSE LET o == Head(olabels)
         IN  IF o.op = "convert"
             THEN spans(Tail(olabels), Append(converters, o.arg), open, closed)
             ELSE IF o.op = "converted"
             THEN spans(Tail(olabels), SubSeq(converters, 1, Len(converters) - 1),
                        open, closed)
             ELSE IF o.op = "begin"
             THEN spans(Tail(olabels), converters,
                        Append(open, [entity |-> o.arg, tokens |-> <<>>]), closed)
             ELSE IF o.op = "end"
             THEN spans(Tail(olabels), converters, SubSeq(open, 1, Len(open) - 1),
                        Append(closed, open[Len(open)]))
             ELSE IF o.op = "word" /\ o.arg # ""
             THEN spans(Tail(olabels), converters,
                        [k \in 1..Len(open) |->
                            [open[k] EXCEPT !.tokens = Append(@, through(converters, o))]],
                        closed)
             ELSE spans(Tail(olabels), converters, open, closed)

entity_spans(node_path, g) == spans(path_olabels(node_path, g), <<>>, <<>>, <<>>)

\* C17: each Entity of the Recognition made from a path holds exactly the
\* converted values of the output tokens between its __begin__ and __end__
\* markers on the path, in path order, also when the tagged expression lies
\* inside an enclosing converter
C17_EntityHoldsItsSpan ==
    (pc = "expr_done" /\ error = "") =>
        \A k \in 1..Len(recognitions) :
            /\ Len(recognitions[k].entities) = Len(entity_spans(paths[k], graph))
            /\ \A j \in 1..Len(recognitions[k].entities) :
                   /\ recognitions[k].entities[j].entity
                          = entity_spans(paths[k], graph)[j].entity
                   /\ recognitions[k].entities[j].tokens
                          = entity_spans(paths[k], graph)[j].tokens

\* some tag lies under a converter of an enclosing expression
RECURSIVE has_tag_under_converter(_, _)
has_tag_under_converter(e, under) ==
    \/ under /\ e.tag.has
    \/ \E i \in 1..Len(e.items) :
           has_tag_under_converter(e.items[i], under \/ e.converters # <<>>
                                                    \/ e.tag.converters # <<>>)

\* some tag lies inside another tag
RECURSIVE has_nested_tag(_, _)
has_nested_tag(e, under) ==
    \/ under /\ e.tag.has
    \/ \E i \in 1..Len(e.items) : has_nested_tag(e.items[i], under \/ e.tag.has)

\* the same, for the expressions whose tags lie under no enclosing converter
\* and inside no other tag
C17_OutsideConverters ==
    (pc = "expr_done" /\ error = "" /\ ~has_tag_under_converter(expression, FALSE)
       /\ ~has_nested_tag(expression, FALSE)) =>
        \A k \in 1..Len(recognitions) :
            /\ Len(recognitions[k].entities) = Len(entity_spans(paths[k], graph))
            /\ \A j \in 1..Len(recognitions[k].entities) :
                   /\ recognitions[k].entities[j].entity
                          = entity_spans(paths[k], graph)[j].entity
                   /\ recognitions[k].entities[j].tokens
                          = entity_spans(paths[k], graph)[j].tokens

\* C18: every Recognition of a strict match found by the search on the
\* tokens as given has the input token list as its raw_tokens, each token
\* once and in input order, and the input joined by single spaces as its
\* raw_text, also for a grammar with converters and word substitutions in
\* one group
C18_RawTokensAreTheInput ==
    (pc = "expr_done" /\ error = "") =>
        \A k \in 1..Len(recognitions) :
            /\ recognitions[k].raw_tokens = tokens
            /\ recognitions[k].raw_text = join(tokens)

\* some substitution lies under a converter
RECURSIVE has_substitution_under_converter(_, _)
has_substitution_under_converter(e, under) ==
    \/ under /\ HasOuterSubstitution(e)
    \/ (e.converters # <<>> \/ e.tag.converters # <<>>) /\ HasOuterSubstitution(e)
    \/ \E i \in 1..Len(e.items) :
           has_substitution_under_converter(e.items[i],
               under \/ e.converters # <<>> \/ e.tag.converters # <<>>)

\* the same, for the expressions with no substitution under a converter
C18_WithoutSubstitutionUnderConverter ==
    (pc = "expr_done" /\ error = ""
       /\ ~has_substitution_under_converter(expression, FALSE)) =>
        \A k \in 1..Len(recognitions) :
            /\ recognitions[k].raw_tokens = tokens
            /\ recognitions[k].raw_text = join(tokens)

\* the markers left open after the output labels, or a fault: a
\* __converted__ or an __end__ that does not close the innermost open
\* marker, compared by kind and full key
RECURSIVE open_markers(_, _)
open_markers(olabels, stack) ==
    IF olabels = <<>> THEN [fault |-> FALSE, stack |-> stack]
    ELSE IF Head(olabels).op \in {"convert", "begin"}
    THEN open_markers(Tail(olabels), Append(stack, Head(olabels)))
    ELSE IF Head(olabels).op \in {"converted", "end"}
    THEN IF stack = <<>>
            \/ stack[Len(stack)].op
                  # (IF Head(olabels).op = "end" THEN "begin" ELSE "convert")
            \/ stack[Len(stack)].arg # Head(olabels).arg
         THEN [fault |-> TRUE, stack |-> stack]
         ELSE open_markers(Tail(olabels), SubSeq(stack, 1, Len(stack) - 1))
    ELSE open_markers(Tail(olabels), stack)

properly_nested(olabels) ==
    ~open_markers(olabels, <<>>).fault /\ open_markers(olabels, <<>>).stack = <<>>

\* the output labels a path emits: those that are not empty
emitted(p) == SelectSeq(olabels_of(p), NonEmpty)

HasWhitespace(olabel) == (~olabel.packed) /\ HasSpace(olabel)

\* C20: every edge output label of a graph made by sentences_to_graph is
\* one token without whitespace: an intent label, a slot source label, a tag
\* or converter marker or a substitution token that would have whitespace in
\* it is stored packed
C20_NoWhitespaceInOutputLabels ==
    pc \in {"expr_compiled", "expr_done"} =>
        \A i \in 1..Len(compiled.edges) : ~HasWhitespace(compiled.edges[i].olabel)

\* the same, for every output label but the intent labels and the slot
\* source labels
C20_MarkersStoredPacked ==
    pc \in {"expr_compiled", "expr_done"} =>
        \A i \in 1..Len(compiled.edges) :
            compiled.edges[i].olabel.op \notin {"label", "source"} =>
                ~HasWhitespace(compiled.edges[i].olabel)

\* ------------------------------------------------------------------------
\* Numbers in a grammar: a word is drawn, given to the two transforms of
\* number_utils.py, and compiled by intents_to_graph as the last word of the
\* sentence "set <word>" of one intent; token lists are recognized on the
\* graph

NumberIntent == "N"

\* bare integers, number ranges with and without a step, and a plain word
NumberWords ==
    {Word(text) : text \in {"0", "2", "5", "20", "21", "72"}}
    \cup {Word(text) : text \in {"70..73", "1..3", "0..3,2"}}
    \cup {Word("on")}

\* what is said after "set": a numeral, or the words of a number
NumberTokens ==
    {<<text>> : text \in DOMAIN Numerals}
    \cup {number_to_words(Numerals[text]) : text \in DOMAIN Numerals}
    \cup {<<"on">>}

InitNumber ==
    /\ corpus = 0
    /\ compiled = EmptyGraph
    /\ graph_file = NoFile
    /\ graph = EmptyGraph
    /\ pc = "number"
    /\ NoSearch
    /\ calls = <<>>
    /\ cost_input = NoCostInput
    /\ cost_output = FuzzyCostOutput(0, TRUE, <<>>, <<>>)
    /\ expression = Word("")
    /\ number_word \in NumberWords
    /\ intents = NoIntents
    /\ template = <<>>
    /\ parsed = Parsed("", <<>>)
    /\ LoopIdle
    /\ TrainIdle

\* result = number_range_transform(word); None leaves the word as it is
NumberRangeTransform ==
    /\ pc = "number"
    /\ \E r \in {number_range_transform(number_word)} :
           expression' = IF r.some THEN r.expression ELSE number_word
    /\ pc' = "number_range_transformed"
    /\ UNCHANGED <<calls, cost_input, cost_output, number_word, intents, template, parsed,
                   loop_vars, train_vars,
                   caller, corpus,
                   compiled, graph_file, graph, tokens, fuzzy, stop_words,
                   intent_filter, exclude_tokens, node_queue, paths,
                   intent_symbols_and_costs, best_cost, best_fuzzy, recognitions,
                   error, prev>>

\* result = number_transform(word); None leaves the word as it is
NumberTransform ==
    /\ pc = "number"
    /\ \E r \in {number_transform(number_word)} :
           expression' = IF r.some THEN r.expression ELSE number_word
    /\ pc' = "number_transformed"
    /\ UNCHANGED <<calls, cost_input, cost_output, number_word, intents, template, parsed,
                   loop_vars, train_vars,
                   caller, corpus,
                   compiled, graph_file, graph, tokens, fuzzy, stop_words,
                   intent_filter, exclude_tokens, node_queue, paths,
                   intent_symbols_and_costs, best_cost, best_fuzzy, recognitions,
                   error, prev>>

\* intents_to_graph(intents) with replace_numbers
CompileNumber ==
    /\ pc = "number"
    /\ compiled' = intents_to_graph(
                       <<[intent_name |-> NumberIntent,
                          sentences |-> <<Group(<<Word("set"), number_word>>)>>]>>,
                       <<>>, TRUE, TRUE, TRUE)
    /\ graph' = compiled'
    /\ pc' = "number_compiled"
    /\ UNCHANGED <<aside, caller, corpus, graph_file, tokens, fuzzy, stop_words,
                   intent_filter, exclude_tokens, node_queue, paths,
                   intent_symbols_and_costs, best_cost, best_fuzzy, recognitions,
                   error, prev>>

\* recognize(tokens, graph), strict, on "set" and what is said after it
RecognizeNumber ==
    /\ pc = "number_compiled"
    /\ \E said \in NumberTokens :
           /\ tokens' = <<"set">> \o said
           /\ paths' = paths_strict(tokens', graph, {}, NoFilter)
    /\ \E r \in {gather_recognitions(as_results(paths'), graph, NoRecognitions)} :
           /\ recognitions' = r.recognitions
           /\ error' = r.error
    /\ pc' = "number_done"
    /\ UNCHANGED <<aside, caller, corpus, compiled, graph_file, graph, fuzzy,
                   stop_words, intent_filter, exclude_tokens, node_queue,
                   intent_symbols_and_costs, best_cost, best_fuzzy, prev>>

NextNumber ==
    \/ NumberRangeTransform
    \/ NumberTransform
    \/ CompileNumber
    \/ RecognizeNumber

SpecNumber == InitNumber /\ [][NextNumber]_vars

\* the integer a numeral stands for, as an output token
int_token(text) == [Plain(text) EXCEPT !.t = "int"]

\* C21: where the grammar has the bare integer n, the digit token n and the
\* spoken words of n are both accepted, and either gives the integer n as
\* the output token
C21_DigitAndSpokenAccepted ==
    (pc = "number_done" /\ IsNumeral(number_word.text)
       /\ tokens \in {<<"set", number_word.text>>,
                      <<"set">> \o number_to_words(Numerals[number_word.text])}) =>
        /\ error = ""
        /\ Len(recognitions) = 1
        /\ recognitions[1].tokens = <<Plain("set"), int_token(number_word.text)>>

\* the same, for the spoken words only
C21_SpokenAccepted ==
    (pc = "number_done" /\ IsNumeral(number_word.text)
       /\ tokens = <<"set">> \o number_to_words(Numerals[number_word.text])) =>
        /\ error = ""
        /\ Len(recognitions) = 1
        /\ recognitions[1].tokens = <<Plain("set"), int_token(number_word.text)>>

\* the step written in a number range, "1" when none is written
written_step(text) ==
    IF NumberRanges[text][3] = "" THEN "1" ELSE NumberRanges[text][3]

\* C22: number_range_transform makes of the bare word lower..upper,step a
\* reference to the slot mycroft/number with the converter int and the
\* arguments lower, upper and step, the step being 1 only when none is
\* written
C22_RangeArguments ==
    (pc = "number_range_transformed" /\ number_word.text \in DOMAIN NumberRanges) =>
        /\ expression.kind = "SlotReference"
        /\ expression.converters = <<"int">>
        /\ expression.slot_name
               = <<"mycroft/number", NumberRanges[number_word.text][1],
                   NumberRanges[number_word.text][2], written_step(number_word.text)>>

\* the same, for the ranges written without a step
C22_RangeWithoutStep ==
    (pc = "number_range_transformed" /\ number_word.text \in DOMAIN NumberRanges
       /\ NumberRanges[number_word.text][3] = "") =>
        /\ expression.kind = "SlotReference"
        /\ expression.converters = <<"int">>
        /\ expression.slot_name
               = <<"mycroft/number", NumberRanges[number_word.text][1],
                   NumberRanges[number_word.text][2], "1">>

\* ------------------------------------------------------------------------
\* Intent weights: sentences_to_graph on up to MaxIntents intents of one
\* sentence each, the sentences of different counts

WeightReplacements ==
    <<[key |-> <<"$", "s">>, values |-> <<Word("room"), Word("kitchen")>>]>>

\* sentences that count 1, 2, 3, 4 and 6, and a slot (2, or 0 when slots
\* are left out of the counts)
WeightSentences ==
    {Word("on"),
     Alternative(<<Word("on"), Word("off")>>),
     Alternative(<<Word("on"), Word("off"), Word("now")>>),
     Group(<<Alternative(<<Word("on"), Word("off")>>),
             Alternative(<<Word("light"), Word("lamp")>>)>>),
     Group(<<Alternative(<<Word("on"), Word("off")>>),
             Alternative(<<Word("light"), Word("lamp"), Word("fan")>>)>>),
     Group(<<Word("on"), SlotReference(<<"s">>)>>)}

WeightIntentNames == <<"a", "b", "c", "d", "e">>

InitWeights ==
    /\ corpus = 0
    /\ compiled = EmptyGraph
    /\ graph_file = NoFile
    /\ graph = EmptyGraph
    /\ pc = "weights"
    /\ NoSearch
    /\ calls = <<>>
    /\ cost_input = NoCostInput
    /\ cost_output = FuzzyCostOutput(0, TRUE, <<>>, <<>>)
    /\ expression = Word("")
    /\ number_word = Word("")
    /\ template = <<>>
    /\ parsed = Parsed("", <<>>)
    /\ LoopIdle
    /\ TrainIdle
    /\ \E n \in 1..MaxIntents, weighted \in BOOLEAN, exclude \in BOOLEAN :
           \E chosen \in [1..n -> WeightSentences] :
               intents = [sentences |->
                              [i \in 1..n |-> [intent_name |-> WeightIntentNames[i],
                                               sentences |-> <<chosen[i]>>]],
                          add_intent_weights |-> weighted,
                          exclude_slots_from_counts |-> exclude]

\* sentences_to_graph(sentences, replacements, add_intent_weights,
\* exclude_slots_from_counts)
CompileIntents ==
    /\ pc = "weights"
    /\ compiled' = sentences_to_graph(intents.sentences, WeightReplacements,
                                      intents.add_intent_weights,
                                      intents.exclude_slots_from_counts, TRUE)
    /\ pc' = "weights_compiled"
    /\ UNCHANGED <<aside, caller, corpus, graph_file, graph, tokens, fuzzy, stop_words,
                   intent_filter, exclude_tokens, node_queue, paths,
                   intent_symbols_and_costs, best_cost, best_fuzzy, recognitions,
                   error, prev>>

NextWeights == CompileIntents

SpecWeights == InitWeights /\ [][NextWeights]_vars

\* the intent edges of a graph, in the order of the intents
intent_edges(g) == SelectSeq(g.edges, IsIntentEdge)

\* the sentence count of intent i: the sentences its templates expand to,
\* a template with a slot counting none when slots are left out, and 1 at
\* least
sentence_count_of(i) ==
    Max(1, IF intents.exclude_slots_from_counts
              /\ has_slot(intents.sentences[i].sentences[1])
           THEN 0
           ELSE Len(expand(intents.sentences[i].sentences[1], WeightReplacements,
                           intents.sentences[i].intent_name)))

RECURSIVE ProductOf(_)
ProductOf(s) == IF s = <<>> THEN 1 ELSE Head(s) * ProductOf(Tail(s))

sentence_counts == [i \in 1..Len(intents.sentences) |-> sentence_count_of(i)]

\* the sum over the intents j of 1 / count_j, times the product of the counts
inverse_sum ==
    SumSeq([j \in 1..Len(sentence_counts) |->
               ProductOf(sentence_counts) \div sentence_counts[j]])

\* C23: with two or more intents and weights enabled the intent edge of
\* intent i carries the weight (1 / count_i) / (sum over j of 1 / count_j),
\* count_i the sentence count of the intent, 1 at least; the weights sum
\* to 1
C23_InverseCountWeights ==
    (pc = "weights_compiled" /\ intents.add_intent_weights
       /\ Len(intents.sentences) >= 2) =>
        /\ Len(intent_edges(compiled)) = Len(intents.sentences)
        /\ \A i \in 1..Len(intents.sentences) :
               /\ intent_edges(compiled)[i].has_weight
               /\ intent_edges(compiled)[i].sentence_count = sentence_counts[i]
               /\ intent_edges(compiled)[i].weight[2] > 0
               /\ intent_edges(compiled)[i].weight[1] * inverse_sum
                      = intent_edges(compiled)[i].weight[2]
                            * (ProductOf(sentence_counts) \div sentence_counts[i])
        /\ SumSeq([i \in 1..Len(intents.sentences) |->
                      intent_edges(compiled)[i].weight[1]])
               = intent_edges(compiled)[1].weight[2]
        /\ \A i \in 1..Len(intents.sentences) :
               intent_edges(compiled)[i].weight[2] = intent_edges(compiled)[1].weight[2]

\* three intents of 1, 2 and 3 sentences: the weights 6/11, 3/11 and 2/11
C23_Witness ==
    /\ pc = "weights_compiled"
    /\ intents.add_intent_weights
    /\ sentence_counts = <<1, 2, 3>>
    /\ [i \in 1..3 |-> intent_edges(compiled)[i].weight] = <<<<6, 11>>, <<3, 11>>, <<2, 11>>>>

\* ------------------------------------------------------------------------
\* The searches on a graph with a cycle: the grammar has a wildcard, whose
\* state carries a self loop; the recognizer holds the graph and recognizes
\* token lists, the searches advancing one queue item per step

\* [W] / turn * now
\* [V] / turn [it] on
CorpusWild ==
    <<[intent_name |-> "W",
       sentences |-> <<Group(<<Word("turn"), Word(WILDCARD), Word("now")>>)>>],
      [intent_name |-> "V",
       sentences |-> <<Group(<<Word("turn"), Optional(Word("it")), Word("on")>>)>>]>>

WildInputs ==
    BoundedSeqs({"turn", "foo", "now"}, MaxLen)
    \cup {<<"turn", WILDCARD, "now">>, <<"turn", "foo", "foo", "now">>, <<"turn", "on">>}

WildStopWords == {{}, {"foo"}, {WILDCARD}}

\* the longest path a queue item may have for the search to go on from it:
\* more than the six nodes of a path of the graph and the four tokens of the
\* longest input together
MaxPath == 12

InitWild ==
    /\ corpus = 0
    /\ compiled = intents_to_graph(CorpusWild, <<>>, TRUE, TRUE, TRUE)
    /\ graph_file = graph_to_json(compiled)
    /\ graph = json_to_graph(graph_file)
    /\ pc = "idle"
    /\ NoSearch
    /\ NoAside

\* the path of the queue item a search is about to take
head_path ==
    IF fuzzy THEN Head(node_queue).out_path ELSE Head(node_queue).path

NextWild ==
    \/ \E toks \in WildInputs, fz \in BOOLEAN, sw \in WildStopWords :
           Recognize(toks, fz, sw, NoFilter)
    \/ (node_queue # <<>> /\ Len(head_path) <= MaxPath /\ StrictStep)
    \/ StrictRetry
    \/ StrictFinish
    \/ (node_queue # <<>> /\ Len(head_path) <= MaxPath /\ FuzzyStep)
    \/ FuzzyFinish

SpecWild == InitWild /\ [][NextWild]_vars

\* the nodes a queue item has been at, its present node last, and the
\* tokens consumed on leaving each
visits(node, path) == [i \in 1..(Len(path) + 1) |->
                          IF i <= Len(path) THEN path[i].node ELSE node]

\* between two visits of one node a token is consumed
consumes_on_cycles(node, path) ==
    \A i, j \in 1..(Len(path) + 1) :
        (i < j /\ visits(node, path)[i] = visits(node, path)[j]) =>
            \E k \in i..(j - 1) : path[k].tokens # <<>>

\* C24: paths_strict, with or without exclude_tokens and for every set of
\* stop words, and paths_fuzzy terminate on every compiled graph, wildcard
\* self loops included, and every finite token list: every traversal of a
\* cycle of the graph consumes at least one input token
C24_CyclesConsumeTokens ==
    \A k \in 1..Len(node_queue) :
        IF pc = "fuzzy"
        THEN consumes_on_cycles(node_queue[k].node, node_queue[k].out_path)
        ELSE consumes_on_cycles(node_queue[k].node, node_queue[k].path)

\* the same, for the searches that do not exclude the wildcard
C24_UnlessWildcardExcluded ==
    WILDCARD \notin exclude_tokens =>
        \A k \in 1..Len(node_queue) :
            IF pc = "fuzzy"
            THEN consumes_on_cycles(node_queue[k].node, node_queue[k].out_path)
            ELSE consumes_on_cycles(node_queue[k].node, node_queue[k].path)

\* and these searches come to their end: no queue item has a path longer
\* than the nodes and the tokens together
C24_SearchesEnd ==
    WILDCARD \notin exclude_tokens =>
        \A k \in 1..Len(node_queue) :
            Len(IF pc = "fuzzy" THEN node_queue[k].out_path ELSE node_queue[k].path)
                < MaxPath

\* ------------------------------------------------------------------------
\* The template parser (jsgf.py parse_expression), on texts without ":",
\* "!", "$" and "\": a text is a sequence of characters, indexes count from
\* 0 as in the code; of the Sentence the words are kept

\* str.strip() on a sequence of characters
RECURSIVE lstrip(_)
lstrip(chars) ==
    IF chars # <<>> /\ Head(chars) = " " THEN lstrip(Tail(chars)) ELSE chars

strip(chars) == Reverse(lstrip(Reverse(lstrip(chars))))

\* split_words(literal), for a literal without substitutions, converters
\* and slot references: the words between the spaces; token is the word
\* being gathered
RECURSIVE split_words(_, _)
split_words(chars, token) ==
    IF chars = <<>> THEN (IF token = "" THEN <<>> ELSE <<token>>)
    ELSE IF Head(chars) = " "
    THEN (IF token = "" THEN <<>> ELSE <<token>>) \o split_words(Tail(chars), "")
    ELSE split_words(Tail(chars), token \o Head(chars))

\* text[index:]
text_from(chars, index) == SubSeq(chars, index + 1, Len(chars))

\* the end index parse_expression returns when the end character is not
\* found
NotFound == [found |-> FALSE, index |-> 0]

Found(index) == [found |-> TRUE, index |-> index]

\* the locals of parse_expression: root and last_group say whether they are
\* not None, last_taggable likewise
ParseLocals(root, end, is_literal) ==
    [root |-> root, end |-> end, is_literal |-> is_literal, found |-> FALSE,
     next_index |-> 0, literal |-> <<>>, last_taggable |-> FALSE,
     last_group |-> root, words |-> <<>>, error |-> ""]

Raise(st) == [st EXCEPT !.error = "AssertionError"]

\* "Break literal here"
break_literal(st) ==
    IF strip(st.literal) = <<>> THEN [st EXCEPT !.literal = <<>>]
    ELSE IF ~st.last_group THEN Raise(st)  \* No group preceeding literal
    ELSE [st EXCEPT !.words = @ \o split_words(strip(st.literal), ""),
                    !.last_taggable = TRUE,
                    !.literal = <<>>]

\* after the recursive call for an opening character at current_index: the
\* exception of the call, "Failed to find ending", or the index to go on at
after_group(st, r, current_index, group_needed) ==
    IF r.error # "" THEN [st EXCEPT !.error = r.error]
    ELSE IF ~r.end_index.found THEN Raise(st)  \* Failed to find ending
    ELSE IF group_needed /\ ~st.last_group THEN Raise(st)
    ELSE [st EXCEPT !.next_index = r.end_index.index + current_index,
                    !.words = @ \o r.words,
                    !.last_taggable = TRUE]

RECURSIVE parse_expression(_, _, _, _)
RECURSIVE parse_characters(_, _, _)

\* "Begin group/tag/alt/etc.", after the literal is broken
begin_group(st, chars, current_index, c) ==
    IF st.error # "" THEN st
    ELSE IF c = "<"
    THEN \* Rule reference
         IF ~st.last_group THEN Raise(st)
         ELSE after_group(st, parse_expression(FALSE, text_from(chars, current_index + 1),
                                               {">"}, FALSE),
                          current_index, FALSE)
    ELSE IF c = "("
    THEN \* Group (expression)
         IF st.last_group
         THEN after_group(st, parse_expression(TRUE, text_from(chars, current_index + 1),
                                               {")"}, TRUE),
                          current_index, FALSE)
         ELSE st
    ELSE IF c = "["
    THEN \* Optional
         after_group(st, parse_expression(TRUE, text_from(chars, current_index + 1),
                                          {"]"}, TRUE),
                     current_index, TRUE)
    ELSE IF c = "{"
    THEN \* Tag
         IF ~st.last_taggable THEN Raise(st)
         ELSE after_group(st, parse_expression(FALSE, text_from(chars, current_index + 1),
                                               {"}"}, FALSE),
                          current_index, FALSE)
    ELSE \* "|": a new group for any follow-on expressions
         IF ~st.root THEN Raise(st)
         ELSE [st EXCEPT !.last_group = TRUE]

\* "Process text character-by-character", from current_index on
parse_characters(st, chars, current_index) ==
    IF current_index >= Len(chars) \/ st.error # "" \/ st.found THEN st
    ELSE IF current_index < st.next_index
    THEN \* Skip ahead
         parse_characters(st, chars, current_index + 1)
    ELSE IF chars[current_index + 1] \in st.end
    THEN \* Found end character of expression
         [st EXCEPT !.next_index = current_index + 2, !.found = TRUE]
    ELSE IF chars[current_index + 1] \in {"(", "<", "[", "{", "|"}
    THEN parse_characters(
             begin_group(break_literal([st EXCEPT !.next_index = current_index + 1]),
                         chars, current_index, chars[current_index + 1]),
             chars, current_index + 1)
    ELSE \* Accumulate into current literal
         parse_characters([st EXCEPT !.next_index = current_index + 1,
                                     !.literal = Append(@, chars[current_index + 1])],
                          chars, current_index + 1)

\* "End of expression": the last literal, and what is returned
end_of_expression(st) ==
    IF st.error # "" THEN [error |-> st.error, end_index |-> NotFound, words |-> <<>>]
    ELSE IF st.is_literal /\ strip(st.literal) # <<>> /\ ~st.root
    THEN [error |-> "AssertionError", end_index |-> NotFound, words |-> <<>>]
    ELSE [error |-> "",
          end_index |-> IF st.end # {} /\ ~st.found THEN NotFound
                        ELSE Found(st.next_index),
          words |-> st.words
                    \o (IF st.is_literal THEN split_words(strip(st.literal), "")
                        ELSE <<>>)]

\* parse_expression(root, text, end, is_literal): root says whether a
\* Sequence is given
parse_expression(root, chars, end, is_literal) ==
    end_of_expression(parse_characters(ParseLocals(root, end, is_literal), chars, 0))

\* Sentence.parse(text)
parse_sentence(chars) ==
    Parsed(parse_expression(TRUE, chars, {}, TRUE).error,
           parse_expression(TRUE, chars, {}, TRUE).words)

\* ------------------------------------------------------------------------
\* Sentence.parse on every short template over the delimiters

MaxTemplate == 4

TemplateChars == {"a", " ", "(", ")", "[", "]", "<", ">", "{", "}", "|"}

Templates == UNION {[1..n -> TemplateChars] : n \in 0..MaxTemplate}

InitParse ==
    /\ corpus = 0
    /\ compiled = EmptyGraph
    /\ graph_file = NoFile
    /\ graph = EmptyGraph
    /\ pc = "parse"
    /\ NoSearch
    /\ calls = <<>>
    /\ cost_input = NoCostInput
    /\ cost_output = FuzzyCostOutput(0, TRUE, <<>>, <<>>)
    /\ expression = Word("")
    /\ number_word = Word("")
    /\ intents = NoIntents
    /\ template \in Templates
    /\ parsed = Parsed("", <<>>)
    /\ LoopIdle
    /\ TrainIdle

\* s = Sentence.parse(text)
ParseSentence ==
    /\ pc = "parse"
    /\ parsed' = parse_sentence(template)
    /\ pc' = "parsed"
    /\ UNCHANGED <<calls, cost_input, cost_output, expression, number_word, intents,
                   template, loop_vars, train_vars, caller, corpus,
                   compiled, graph_file, graph, tokens, fuzzy, stop_words,
                   intent_filter, exclude_tokens, node_queue, paths,
                   intent_symbols_and_costs, best_cost, best_fuzzy, recognitions,
                   error, prev>>

NextParse == ParseSentence

SpecParse == InitParse /\ [][NextParse]_vars

Openers == {"(", "[", "<", "{"}

Closers == {")", "]", ">", "}"}

closer_of(c) == CASE c = "(" -> ")" [] c = "[" -> "]" [] c = "<" -> ">" [] OTHER -> "}"

\* a delimiter of the text has no partner: a closer that does not close the
\* innermost open delimiter, or an opener still open at the end
RECURSIVE has_unmatched(_, _)
has_unmatched(chars, open) ==
    IF chars = <<>> THEN open # <<>>
    ELSE IF Head(chars) \in Openers
    THEN has_unmatched(Tail(chars), <<Head(chars)>> \o open)
    ELSE IF Head(chars) \in Closers
    THEN \/ open = <<>>
         \/ closer_of(Head(open)) # Head(chars)
         \/ has_unmatched(Tail(chars), Tail(open))
    ELSE has_unmatched(Tail(chars), open)

has_any(chars, S) == \E i \in 1..Len(chars) : chars[i] \in S

\* C25: Sentence.parse fails with an error, and returns no Sentence, for
\* every template that contains an unmatched delimiter: an opener with no
\* matching closer, or a closer with no matching opener
C25_UnmatchedDelimitersFail ==
    (pc = "parsed" /\ has_unmatched(template, <<>>)) => parsed.error # ""

\* what does hold: a template with an opening delimiter and no closing
\* delimiter at all fails
C25_OpenersWithoutClosersFail ==
    (pc = "parsed" /\ has_any(template, Openers) /\ ~has_any(template, Closers))
        => parsed.error # ""

\* and a template that starts with a closing delimiter and holds no opener
\* and no "|" is parsed without an error: the closer is part of a word
C25_CloserAloneIsAWord ==
    (pc = "parsed" /\ template # <<>> /\ Head(template) \in Closers
        /\ ~has_any(Tail(template), Openers \cup {"|"}))
        => parsed.error = ""

\* ------------------------------------------------------------------------
\* paths_fuzzy against the search without its pruning: token lists long
\* enough for a cost to pass the node count of the graph

\* [W] / turn *           (five nodes, the wildcard state with its self loop)
\* [V] / turn [it] on     (no cycle)
PruneCorpora ==
    <<<<[intent_name |-> "W",
         sentences |-> <<Group(<<Word("turn"), Word(WILDCARD)>>)>>]>>,
      <<[intent_name |-> "V",
         sentences |-> <<Group(<<Word("turn"), Optional(Word("it")), Word("on")>>)>>]>>>>

\* the most unknown tokens before "turn", and the most tokens after it
MaxRun == 5

Repeat(token, n) == [i \in 1..n |-> token]

\* x ... x turn w ... w, and x ... x turn [it] on
PruneInputs ==
    {Repeat("x", i) \o <<"turn">> \o Repeat("w", j) : i, j \in 0..MaxRun}
    \cup {Repeat("x", i) \o <<"turn">> \o tail :
            i \in 0..MaxRun, tail \in {<<"on">>, <<"it", "on">>, <<"it", "w", "on">>}}

PruneStopWords == {{}, {"x"}}

InitPrune ==
    /\ corpus = 0
    /\ compiled \in {intents_to_graph(PruneCorpora[c], <<>>, TRUE, TRUE, TRUE) :
                        c \in 1..Len(PruneCorpora)}
    /\ graph_file = graph_to_json(compiled)
    /\ graph = json_to_graph(graph_file)
    /\ pc = "idle"
    /\ NoSearch
    /\ NoAside

NextPrune ==
    \/ \E toks \in PruneInputs, sw \in PruneStopWords :
           Recognize(toks, TRUE, sw, NoFilter)
    \/ FuzzyStep
    \/ FuzzyFinish

SpecPrune == InitPrune /\ [][NextPrune]_vars

\* every run from the start node: the search loop of paths_fuzzy with no
\* item left out; gives the final costs (accumulated cost and 1 for each
\* unconsumed token) of the runs that end at a final node with a cost below
\* their output-token count
RECURSIVE acceptable_runs(_, _, _, _, _)
acceptable_runs(g, queue, sw, flt, costs) ==
    IF queue = <<>> THEN costs
    ELSE acceptable_runs(
             g,
             Tail(queue)
             \o Flatten([i \in 1..Len(successors(g, Head(queue).node)) |->
                            fuzzy_edge(Head(queue), successors(g, Head(queue).node)[i],
                                       sw, flt)]),
             sw, flt,
             IF is_reported(g, Head(queue))
             THEN costs \cup {Head(queue).cost + 10 * Len(Head(queue).in_tokens)}
             ELSE costs)

Lowest(costs) == CHOOSE c \in costs : \A d \in costs : c <= d

\* the costs of the results paths_fuzzy returns
returned_costs(dict) ==
    UNION {{dict[i].results[k].cost : k \in 1..Len(dict[i].results)} :
              i \in 1..Len(dict)}

has_wildcard(g) == \E i \in 1..Len(g.edges) : g.edges[i].ilabel = WILDCARD

\* the search of paths_fuzzy has returned
search_returned == pc = "fuzzy" /\ node_queue = <<>> /\ tokens # <<>>

\* the final costs of the acceptable runs of the present call
all_acceptable ==
    acceptable_runs(graph, fuzzy_queue(graph, tokens), stop_words, intent_filter, {})

\* C26: with the default cost function, if any start-to-final run has an
\* accumulated cost below its output-token count, the results paths_fuzzy
\* returns are not empty and their lowest cost is the lowest final cost
\* (accumulated cost + unconsumed tokens) of all such runs: pruning on the
\* best cost, which starts at the node count, never discards that run
C26_CheapestAcceptableRun ==
    (search_returned /\ all_acceptable # {}) =>
        /\ returned_costs(intent_symbols_and_costs) # {}
        /\ Lowest(returned_costs(intent_symbols_and_costs)) = Lowest(all_acceptable)

\* what does hold: the same on a graph without a wildcard, where no run
\* comes back to a node
C26_WithoutWildcard ==
    (search_returned /\ all_acceptable # {} /\ ~has_wildcard(graph)) =>
        /\ returned_costs(intent_symbols_and_costs) # {}
        /\ Lowest(returned_costs(intent_symbols_and_costs)) = Lowest(all_acceptable)

\* and on every graph, while no accumulated cost passes the node count
C26_BelowNodeCount ==
    (search_returned /\ all_acceptable # {}
        /\ 10 * Len(SelectSeq(tokens, LAMBDA t : t = "x")) < initial_best_cost(graph)) =>
        /\ returned_costs(intent_symbols_and_costs) # {}
        /\ Lowest(returned_costs(intent_symbols_and_costs)) = Lowest(all_acceptable)

\* ------------------------------------------------------------------------
\* The fuzzy confidence (path_to_recognition, Step 4)

\* a fuzzy result with a cost above 0 whose path consumed no token
costly_without_tokens(result) ==
    /\ result.cost > 0
    /\ \A i \in 1..Len(result.node_path) : result.node_path[i].tokens = <<>>

\* [A] / [turn]:on
\* [B] / lights [please]:(x y)
\* [C] / [turn on]:(x y)
ConfidenceCorpora ==
    <<<<[intent_name |-> "A",
         sentences |-> <<WithSub(Optional(Word("turn")), <<"on">>)>>]>>,
      <<[intent_name |-> "B",
         sentences |-> <<Group(<<Word("lights"),
                                 WithSub(Optional(Word("please")), <<"x", "y">>)>>)>>]>>,
      <<[intent_name |-> "C",
         sentences |-> <<WithSub(Optional(Group(<<Word("turn"), Word("on")>>)),
                                 <<"x", "y">>)>>]>>>>

ConfidenceInputs == BoundedSeqs({"turn", "on", "lights", "please", "foo"}, MaxLen)

ConfidenceStopWords == {{}, {"foo"}}

InitConfidence ==
    /\ corpus = 0
    /\ compiled \in {intents_to_graph(ConfidenceCorpora[c], <<>>, TRUE, TRUE, TRUE) :
                        c \in 1..Len(ConfidenceCorpora)}
    /\ graph_file = graph_to_json(compiled)
    /\ graph = json_to_graph(graph_file)
    /\ pc = "idle"
    /\ NoSearch
    /\ NoAside

NextConfidence ==
    \/ \E toks \in ConfidenceInputs, sw \in ConfidenceStopWords :
           Recognize(toks, TRUE, sw, NoFilter)
    \/ FuzzyStep
    \/ FuzzyFinish

SpecConfidence == InitConfidence /\ [][NextConfidence]_vars

\* path_to_recognition on a fuzzy result leaves a Recognition with a raw
\* token, and has not divided by zero
has_raw_tokens(result) ==
    /\ path_to_recognition(result.node_path, graph, result.cost).error
          # "ZeroDivisionError"
    /\ path_to_recognition(result.node_path, graph, result.cost).result = "SUCCESS"
          => path_to_recognition(result.node_path, graph, result.cost)
                 .recognition.raw_tokens # <<>>

\* C27: whenever recognize passes a fuzzy cost above 0 to
\* path_to_recognition for a path found by paths_fuzzy on a compiled graph,
\* the Recognition has at least one raw token, so that the confidence
\* cost / len(raw_tokens) never divides by zero, also for a path whose only
\* output comes from the substitution edges of an optional
C27_ConfidenceNeverDividesByZero ==
    (pc = "done" /\ fuzzy) =>
        /\ error # "ZeroDivisionError"
        /\ \A k \in 1..Len(best_fuzzy) :
               best_fuzzy[k].cost > 0 => has_raw_tokens(best_fuzzy[k])

\* what does hold: the same for the results whose path consumed a token
C27_WhenATokenIsConsumed ==
    (pc = "done" /\ fuzzy /\ \A k \in 1..Len(best_fuzzy) :
                                ~costly_without_tokens(best_fuzzy[k])) =>
        /\ error # "ZeroDivisionError"
        /\ \A k \in 1..Len(best_fuzzy) :
               best_fuzzy[k].cost > 0 => has_raw_tokens(best_fuzzy[k])

\* ------------------------------------------------------------------------
\* The voice loop (loop_default.py): the microphone thread _mic_proc and
\* run share the queue _mic_queue; every queue call is a step of its own.
\* A chunk is "audio", or "" for the empty chunk that ends the stream.

\* the most audio chunks the microphone gives before its empty chunk
MaxChunks == 3

\* config["mic"]["max_queue_chunks"]
QueueChunks == {1, 2}

MicThread(pc_, chunk, max_mic_queue_chunks, delivered) ==
    [pc |-> pc_, chunk |-> chunk, max_mic_queue_chunks |-> max_mic_queue_chunks,
     delivered |-> delivered]

VoiceLoop(pc_, state, chunk, failures) ==
    [pc |-> pc_, state |-> state, chunk |-> chunk, failures |-> failures]

\* after start(): the thread is about to read its first chunk, run is about
\* to wait for one
InitLoop ==
    /\ corpus = 0
    /\ compiled = EmptyGraph
    /\ graph_file = NoFile
    /\ graph = EmptyGraph
    /\ pc = "loop"
    /\ NoSearch
    /\ calls = <<>>
    /\ cost_input = NoCostInput
    /\ cost_output = FuzzyCostOutput(0, TRUE, <<>>, <<>>)
    /\ expression = Word("")
    /\ number_word = Word("")
    /\ intents = NoIntents
    /\ template = <<>>
    /\ parsed = Parsed("", <<>>)
    /\ mic_queue = <<>>
    /\ \E m \in QueueChunks : mic_thread = MicThread("get_chunk", "", m, 0)
    /\ voice_loop = VoiceLoop("get", "DETECTING_HOTWORD", "", 0)
    /\ stt_calls = <<>>
    /\ TrainIdle

rest_of_loop ==
    <<calls, cost_input, cost_output, expression, number_word, intents, template,
      parsed, train_vars, caller, corpus, compiled, graph_file, graph, pc, tokens,
      fuzzy, stop_words, intent_filter, exclude_tokens, node_queue, paths,
      intent_symbols_and_costs, best_cost, best_fuzzy, recognitions, error, prev>>

\* chunk = mic.get_chunk()
MicGetChunk ==
    /\ mic_thread.pc = "get_chunk"
    /\ \E c \in (IF mic_thread.delivered < MaxChunks THEN {"audio", ""} ELSE {""}) :
           mic_thread' = [mic_thread EXCEPT !.pc = "qsize", !.chunk = c,
                                            !.delivered = @ + 1]
    /\ UNCHANGED <<mic_queue, voice_loop, stt_calls, rest_of_loop>>

\* while mic_queue.qsize() >= max_mic_queue_chunks
MicQsize ==
    /\ mic_thread.pc = "qsize"
    /\ mic_thread' = [mic_thread EXCEPT !.pc =
                         IF Len(mic_queue) >= mic_thread.max_mic_queue_chunks
                         THEN "drop" ELSE "put"]
    /\ UNCHANGED <<mic_queue, voice_loop, stt_calls, rest_of_loop>>

\* mic_queue.get(), which waits while the queue is empty
MicDrop ==
    /\ mic_thread.pc = "drop"
    /\ mic_queue # <<>>
    /\ mic_queue' = Tail(mic_queue)
    /\ mic_thread' = [mic_thread EXCEPT !.pc = "qsize"]
    /\ UNCHANGED <<voice_loop, stt_calls, rest_of_loop>>

\* mic_queue.put_nowait(chunk); the empty chunk ends the thread
MicPut ==
    /\ mic_thread.pc = "put"
    /\ mic_queue' = Append(mic_queue, mic_thread.chunk)
    /\ mic_thread' = [mic_thread EXCEPT !.pc =
                         IF mic_thread.chunk = "" THEN "stopped" ELSE "get_chunk"]
    /\ UNCHANGED <<voice_loop, stt_calls, rest_of_loop>>

\* chunk = self._mic_queue.get(), which waits while the queue is empty; the
\* empty chunk ends run
LoopGet ==
    /\ voice_loop.pc = "get"
    /\ mic_queue # <<>>
    /\ mic_queue' = Tail(mic_queue)
    /\ voice_loop' = [voice_loop EXCEPT !.chunk = Head(mic_queue),
                                        !.pc = IF Head(mic_queue) = "" THEN "exited"
                                               ELSE "chunk"]
    /\ UNCHANGED <<mic_thread, stt_calls, rest_of_loop>>

\* what the components do with one chunk: the hotword detector, the voice
\* activity detector, the speech to text, the intent recognizer and the
\* handler answer or raise
Outcomes(state) ==
    IF state = "DETECTING_HOTWORD"
    THEN {"quiet", "hotword", "hotword_raises", "begin_command_raises",
          "begin_speech_raises"}
    ELSE {"stt_raises", "vad_raises", "speaking", "end_speech_raises", "no_speech",
          "no_intent", "intent_raises", "handled", "handle_raises"}

Raises(outcome) ==
    outcome \in {"hotword_raises", "begin_command_raises", "begin_speech_raises",
                 "stt_raises", "vad_raises", "end_speech_raises", "intent_raises",
                 "handle_raises"}

\* the calls of the speech to text the try block makes before it ends or
\* raises
try_calls(outcome) ==
    IF outcome \in {"hotword", "begin_speech_raises"} THEN <<"begin_speech">>
    ELSE IF outcome \in {"end_speech_raises", "no_speech", "no_intent", "intent_raises",
                         "handled", "handle_raises"}
    THEN <<"end_speech">>
    ELSE <<>>

\* state when the try block ends or raises
try_state(state, outcome) ==
    IF outcome \in {"hotword", "begin_command_raises", "begin_speech_raises"}
    THEN "RECORDING_COMMAND"
    ELSE IF outcome \in {"handled", "handle_raises"} THEN "HANDLING_INTENT"
    ELSE state

\* the try block reaches self._drain_mic_queue()
EndsCommand(outcome) == outcome \in {"no_speech", "no_intent", "handled"}

\* the body of the loop on a chunk, up to the first call of the queue: the
\* try block, and on an exception the clean up, whose end_speech may raise
\* in its turn (cleanup_raises), which ends run
LoopChunk ==
    /\ voice_loop.pc = "chunk"
    /\ \E outcome \in Outcomes(voice_loop.state), cleanup_raises \in BOOLEAN :
           /\ stt_calls' = stt_calls \o try_calls(outcome)
                           \o (IF Raises(outcome) THEN <<"end_speech">> ELSE <<>>)
           /\ voice_loop' =
                 [voice_loop EXCEPT
                    !.state = try_state(voice_loop.state, outcome),
                    !.failures = @ + (IF Raises(outcome) THEN 1 ELSE 0)
                                   + (IF Raises(outcome) /\ cleanup_raises THEN 1 ELSE 0),
                    !.pc = IF Raises(outcome) /\ cleanup_raises THEN "raised"
                           ELSE IF Raises(outcome) \/ EndsCommand(outcome) THEN "empty"
                           ELSE "get"]
    /\ UNCHANGED <<mic_queue, mic_thread, rest_of_loop>>

\* _drain_mic_queue: while not self._mic_queue.empty(); after the drain,
\* state = State.DETECTING_HOTWORD
DrainEmpty ==
    /\ voice_loop.pc = "empty"
    /\ voice_loop' = IF mic_queue # <<>> THEN [voice_loop EXCEPT !.pc = "drain"]
                     ELSE [voice_loop EXCEPT !.pc = "get",
                                             !.state = "DETECTING_HOTWORD"]
    /\ UNCHANGED <<mic_queue, mic_thread, stt_calls, rest_of_loop>>

\* _drain_mic_queue: self._mic_queue.get(), which waits while the queue is
\* empty
DrainGet ==
    /\ voice_loop.pc = "drain"
    /\ mic_queue # <<>>
    /\ mic_queue' = Tail(mic_queue)
    /\ voice_loop' = [voice_loop EXCEPT !.pc = "empty"]
    /\ UNCHANGED <<mic_thread, stt_calls, rest_of_loop>>

NextLoop ==
    \/ MicGetChunk
    \/ MicQsize
    \/ MicDrop
    \/ MicPut
    \/ LoopGet
    \/ LoopChunk
    \/ DrainEmpty
    \/ DrainGet

SpecLoop == InitLoop /\ [][NextLoop]_vars

\* the microphone thread waits in the get() that drops a surplus chunk, on
\* an empty queue
drop_waits == mic_thread.pc = "drop" /\ mic_queue = <<>>

\* run waits for a chunk
run_waits == voice_loop.pc \in {"get", "drain"} /\ mic_queue = <<>>

\* C28: with max_queue_chunks of at least 1, the microphone thread and the
\* voice loop never deadlock on the shared queue: under every interleaving
\* the get() by which the microphone thread drops a surplus chunk never
\* waits on a queue that the voice loop has emptied in the meantime, so that
\* every chunk the microphone delivers is enqueued
C28_DropNeverWaits == ~drop_waits

\* the deadlock itself: both threads wait for a chunk that only the other
\* could put
C28_NeverBothWaiting == ~(drop_waits /\ run_waits)

\* what does hold: the queue never holds more than max_queue_chunks chunks
C28_QueueStaysShort == Len(mic_queue) <= mic_thread.max_mic_queue_chunks

\* the calls strictly alternate, begin_speech first
alternate(speech_calls) ==
    \A i \in 1..Len(speech_calls) :
        speech_calls[i] = (IF i % 2 = 1 THEN "begin_speech" ELSE "end_speech")

\* C29: in run, for every sequence of audio chunks and every component
\* failure, the calls of stt.begin_speech and stt.end_speech strictly
\* alternate, begin_speech first (end_speech only while a phrase is open,
\* at most once per phrase), and after an end of command or an exception
\* the loop is back in DETECTING_HOTWORD
C29_SpeechCallsAlternate ==
    /\ alternate(stt_calls)
    /\ voice_loop.pc = "get" /\ stt_calls # <<>>
          /\ stt_calls[Len(stt_calls)] = "end_speech"
          => voice_loop.state = "DETECTING_HOTWORD"
    /\ voice_loop.pc # "raised"

\* what does hold: the same while no component has raised
C29_WithoutFailures ==
    voice_loop.failures = 0 =>
        /\ alternate(stt_calls)
        /\ voice_loop.pc = "get" /\ stt_calls # <<>>
              /\ stt_calls[Len(stt_calls)] = "end_speech"
              => voice_loop.state = "DETECTING_HOTWORD"

\* and after an exception whose clean up does not raise, the loop waits for
\* its next chunk in DETECTING_HOTWORD
C29_BackToDetecting ==
    (voice_loop.pc = "get" /\ stt_calls # <<>>
        /\ stt_calls[Len(stt_calls)] = "end_speech")
        => voice_loop.state = "DETECTING_HOTWORD"

\* ------------------------------------------------------------------------
\* The trainer (train/fsticuffs.py): train_intent on an input file that is
\* edited between the runs. A file is the list of its sections, a section
\* has a name and its lines, a line is the list of its words; the names of
\* a file differ, and so do the lines of a section.

\* the section names and the lines, each in the order sorted() gives them
SectionNames == <<"A", "B">>

SentenceLines == <<<<"turn", "off">>, <<"turn", "on">>>>

RankIn(sorted_values, v) == CHOOSE i \in 1..Len(sorted_values) : sorted_values[i] = v

Section(name, lines) == [name |-> name, lines |-> lines]

\* the lines a section may hold: one line, or both in either order
SectionLines ==
    {<<SentenceLines[i]>> : i \in 1..Len(SentenceLines)}
    \cup {<<SentenceLines[1], SentenceLines[2]>>, <<SentenceLines[2], SentenceLines[1]>>}

IniFiles ==
    {<<Section(n, l)>> : n \in Range(SectionNames), l \in SectionLines}
    \cup {<<Section(SectionNames[1], l1), Section(SectionNames[2], l2)>> :
            l1 \in SectionLines, l2 \in SectionLines}

\* sorted(values), by the rank of key(value)
RECURSIVE sorted_by(_, _, _)
sorted_by(values, key(_), sorted_values) ==
    IF values = <<>> THEN <<>>
    ELSE LET least == CHOOSE i \in 1..Len(values) :
                          \A j \in 1..Len(values) :
                              RankIn(sorted_values, key(values[i]))
                                  <= RankIn(sorted_values, key(values[j]))
         IN  <<values[least]>>
             \o sorted_by([j \in 1..(Len(values) - 1) |->
                              IF j < least THEN values[j] ELSE values[j + 1]],
                          key, sorted_values)

\* what the inner loop of compute_ini_hash feeds to the hash for a section:
\* f"{sorted_key} = ${sorted_value}" for its sorted items, a sentence being
\* a key without a value
RECURSIVE section_hash_lines(_)
section_hash_lines(lines) ==
    IF lines = <<>> THEN ""
    ELSE join(Head(lines)) \o " = $" \o section_hash_lines(Tail(lines))

RECURSIVE sections_hash_lines(_)
sections_hash_lines(sections) ==
    IF sections = <<>> THEN ""
    ELSE section_hash_lines(sorted_by(Head(sections).lines, LAMBDA l : l, SentenceLines))
         \o sections_hash_lines(Tail(sections))

\* compute_ini_hash(input_files): the digest stands for what was fed to the
\* hash, two digests being equal when the bytes fed are
compute_ini_hash(sections) ==
    sections_hash_lines(sorted_by(sections, LAMBDA s : s.name, SectionNames))

\* parse_ini and split_rules on the file: the sentences of every intent
parse_sections(sections) ==
    [i \in 1..Len(sections) |->
        [intent_name |-> sections[i].name,
         sentences |-> [k \in 1..Len(sections[i].lines) |->
                          Group([w \in 1..Len(sections[i].lines[k]) |->
                                    Word(sections[i].lines[k][w])])]]]

\* the JSON graph train_intent writes for the file
trained_graph(sections) ==
    graph_to_json(sentences_to_graph(parse_sections(sections), <<>>, TRUE, TRUE, TRUE))

FileWith(content) == [is_file |-> TRUE, content |-> content]

Trainer(pc_, actual_hash, force_retrain) ==
    [pc |-> pc_, actual_hash |-> actual_hash, force_retrain |-> force_retrain]

InitTrain ==
    /\ corpus = 0
    /\ compiled = EmptyGraph
    /\ graph_file = NoFile
    /\ graph = EmptyGraph
    /\ pc = "train"
    /\ NoSearch
    /\ calls = <<>>
    /\ cost_input = NoCostInput
    /\ cost_output = FuzzyCostOutput(0, TRUE, <<>>, <<>>)
    /\ expression = Word("")
    /\ number_word = Word("")
    /\ intents = NoIntents
    /\ template = <<>>
    /\ parsed = Parsed("", <<>>)
    /\ LoopIdle
    /\ input_file \in IniFiles
    /\ output_graph = NoFileAt
    /\ output_skip_hash = NoFileAt
    /\ trainer = Trainer("idle", "", FALSE)

rest_of_train ==
    <<calls, cost_input, cost_output, expression, number_word, intents, template,
      parsed, loop_vars, caller, corpus, compiled, graph_file, graph, pc, tokens,
      fuzzy, stop_words, intent_filter, exclude_tokens, node_queue, paths,
      intent_symbols_and_costs, best_cost, best_fuzzy, recognitions, error, prev>>

\* the input file is edited between two runs
EditInput ==
    /\ trainer.pc \in {"idle", "skipped", "trained"}
    /\ \E f \in IniFiles : f # input_file /\ input_file' = f
    /\ trainer' = Trainer("idle", "", FALSE)
    /\ UNCHANGED <<output_graph, output_skip_hash, rest_of_train>>

\* train_intent up to "Check if training can be skipped": returns False
\* when the hashes match
TrainIntent ==
    /\ trainer.pc = "idle"
    /\ \E force_retrain \in BOOLEAN :
           trainer' =
               Trainer(IF ~force_retrain /\ output_skip_hash.is_file
                          /\ output_skip_hash.content = compute_ini_hash(input_file)
                       THEN "skipped" ELSE "training",
                       compute_ini_hash(input_file), force_retrain)
    /\ UNCHANGED <<input_file, output_graph, output_skip_hash, rest_of_train>>

\* train_intent, "Read sentences" to "Write JSON graph"
WriteGraph ==
    /\ trainer.pc = "training"
    /\ output_graph' = FileWith(trained_graph(input_file))
    /\ trainer' = [trainer EXCEPT !.pc = "graph_written"]
    /\ UNCHANGED <<input_file, output_skip_hash, rest_of_train>>

\* train_intent, "Write hash so training can be skipped next time"
WriteHash ==
    /\ trainer.pc = "graph_written"
    /\ output_skip_hash' = FileWith(trainer.actual_hash)
    /\ trainer' = [trainer EXCEPT !.pc = "trained"]
    /\ UNCHANGED <<input_file, output_graph, rest_of_train>>

NextTrain == EditInput \/ TrainIntent \/ WriteGraph \/ WriteHash

SpecTrain == InitTrain /\ [][NextTrain]_vars

\* a run of train_intent has returned
run_over == trainer.pc \in {"skipped", "trained"}

\* C30: train_intent skips training (without force_retrain) only if the
\* intent corpus is the one that produced the stored hash: after any change
\* of the input file that changes the parsed corpus, the renaming of a
\* section and the move of a sentence to another section included, the next
\* run retrains, so that the stored graph is that of the present corpus;
\* and the hash is written only after the graph
C30_StoredGraphIsCurrent ==
    /\ run_over =>
          /\ output_graph.is_file
          /\ output_graph.content = trained_graph(input_file)
    /\ output_skip_hash.is_file => output_graph.is_file

\* what does hold: the hash file is there only with the graph file, a
\* skipped run found the stored hash equal to that of the input file, and
\* after a run that trained the stored graph is that of the input file
C30_HashAfterGraph ==
    /\ output_skip_hash.is_file => output_graph.is_file
    /\ trainer.pc = "skipped" =>
          /\ ~trainer.force_retrain
          /\ output_skip_hash.content = compute_ini_hash(input_file)
    /\ trainer.pc = "trained" =>
          /\ output_graph.content = trained_graph(input_file)
          /\ output_skip_hash.content = compute_ini_hash(input_file)
====
